---------------------------- MODULE Spec2Model ----------------------------
(***************************************************************************)
(* TopoLens: the streaming ingestion / window / aggregation pipeline.      *)
(*                                                                         *)
(*   SpecSession  the ingestion session   src/src/workers/fetchWorker.ts   *)
(*   SpecWindow   the in-memory window    src/unnamed/part_007             *)
(*   SpecGraph    the graph orchestrator  src/src/hooks/useGraphData.ts    *)
(*                and its worker          src/src/workers/graphWorker.ts   *)
(*                                                                         *)
(* Each specification moves its own variables and leaves the others at     *)
(* their initial values.                                                   *)
(***************************************************************************)
EXTENDS Integers, Sequences, FiniteSets, TLC

\* fetchWorker.ts module state (lines 16-18) and its environment
VARIABLES socket, shouldRun, reconnectTimer, sockets, timers, timerSeq,
          posted, attempts, lastEvent

\* useRipeRis (part_007) state: the window, the limit, and what was received
VARIABLES updates, limit, limitRef, isMounted, received, frames, limitChanged

\* useGraphData state (refs and React state), the graph worker's queue, the
\* events it posted, and what was issued and handled so far
VARIABLES workerRef, latestUpdates, requestCounter, latestRequest,
          scheduledBuild, buildTimers, armedWith,
          graph, isComputing, error, mounted, workerSeq, inbox, outbox,
          lastCommand, lastMessage, lastStep

\* the graph worker taken alone: the command it handled last, the event it
\* posted for it, and whether that command was a build of the very batch of
\* the command before it (history)
VARIABLES workerCommand, workerEvent, sameAsBefore

\* the pure functions taken alone, each with its argument and, once it was
\* called, <<its result>>: of buildGraph and of extractUpdates
VARIABLES buildArgument, payload, rawArgument, extracted

\* The server store (api/src/db.ts): the rows of table as_edge in insertion
\* order; and, as history, the AS paths given to upsertEdgesFromASPath so
\* far and the number of calls, which is the `ts` of the next call.
VARIABLES asEdge, processed, clock

\* The update monitor (api/src/collector.ts): what the collector process
\* wrote and the stream has not delivered yet; and, as history, the lines the
\* process wrote, the lines the data handler read, the store writes and
\* handler calls it made, and whether the stopper was called and the process
\* killed
VARIABLES stdout, written, linesRead, effects, stopperCalled, killed

\* The server app (api/src/app.ts, setupApp): the set `clients` in insertion
\* order; every websocket connection made, with its readyState and whether
\* its close event was emitted; the payloads handed to send without a throw;
\* as history, each event the monitor reported with the connections of that
\* moment; whether stopMonitor was called and the app closed
VARIABLES clients, connections, delivered, reports, monitorStopped, appClosed

\* The layout stages.  SigmaGraph (components/SigmaGraph.tsx): the nodes of
\* the graphology graph with their positions, whether rendererRef holds a
\* renderer, the state of its camera, and, as history, the number of
\* non-empty graphs laid out since the last empty one.  CanvasGraph
\* (web/src/canvas.ts): its map of nodes, its view transform, and the number
\* of snapshots set.  The force-graph App (App.tsx lines 889-908):
\* hasFitGraphRef, the number of nodes and whether the container has a size
\* at the last render, and, as history, the calls of zoomToFit since
\* hasFitGraphRef was last cleared.  The three are separate programs; `stage`
\* is the one that runs.
VARIABLES stage, sigmaNodes, rendererRef, camera, layoutsSinceReset,
          canvasNodes, canvasView, snapshots,
          hasFitGraphRef, renderedNodes, graphSized, fitsSinceReset

\* The durable window (indexedDb.ts, hooks/useRipeRis.ts): the object store
\* and its key generator, the transactions that are not complete in creation
\* order, the hook's `updates` state and isMountedRef; and, as history, the
\* clears requested and completed, the store as last committed, the result
\* getRecentUpdates returned in the step just taken (NoRead after any other
\* step), and the kinds of the transactions that were not complete when clear
\* was requested.
VARIABLES records, nextId, transactions, updatesState, storeMounted,
          readLimit, clearsRequested, clearsCompleted, committed, lastRead,
          pendingAtClear

\* The value of an empty reference (socket, timer handle, workerRef).
\* Socket, timer and worker handles are positive integers.
null == 0

\* Bound: number of `new WebSocket` calls explored.
MaxAttempts == 3

\* Bounds of the window: the largest limit, the largest number of updates
\* in one "updates" event (larger than the limit), the number of events.
MaxLimit == 3
MaxBatch == 4
MaxFrames == 3

\* Bounds of the orchestrator: the longest updates array passed to the hook,
\* the number of requests issued, the number of workers created.
MaxUpdates == 2
MaxRequests == 3
MaxWorkers == 2

\* Bounds of the graph worker taken alone: the longest batch of a build
\* command, the number of commands handled.
MaxBuild == 2
MaxCommands == 3

\* Bound of buildGraph taken alone: the longest batch it is called on.
MaxGraphBatch == 3

\* Bounds of extractUpdates taken alone: the longest `prefixes` array of an
\* announcement, the longest `withdrawals` array of a frame.
MaxPrefixes == 2
MaxWithdrawals == 1

\* Bounds of the durable window: the records ever stored, the greatest limit
\* of a read, the clear operations requested.
MaxRecords == 3
MaxRead == 2
MaxClears == 1

\* Bounds of the server store: the longest AS path, the calls of
\* upsertEdgesFromASPath.
MaxHops == 3
MaxUpserts == 2

\* Bounds of the update monitor: the number of lines the collector writes,
\* the number of "data" events of its output stream.
MaxLines == 2
MaxChunks == 3

\* Bounds of the server app: the number of websocket connections, the number
\* of events the monitor reports.
MaxConnections == 2
MaxReports == 1

\* Bounds of the layout stages: the number of non-empty graphs laid out
\* between two empty ones, the number of snapshots set, the number of nodes
\* of the force graph.
MaxLayouts == 2
MaxSnapshots == 1
MaxRendered == 2

functionVars == <<buildArgument, payload, rawArgument, extracted>>

serverVars == <<asEdge, processed, clock>>
collectorVars == <<stdout, written, linesRead, effects, stopperCalled, killed>>
appVars == <<clients, connections, delivered, reports, monitorStopped, appClosed>>
layoutVars == <<stage, sigmaNodes, rendererRef, camera, layoutsSinceReset, canvasNodes, canvasView, snapshots, hasFitGraphRef, renderedNodes, graphSized, fitsSinceReset>>

storeVars ==
    <<records, nextId, transactions, updatesState, storeMounted, readLimit,
      clearsRequested, clearsCompleted, committed, lastRead, pendingAtClear>>

aggregatorVars == <<workerCommand, workerEvent, sameAsBefore>>

graphVars ==
    <<workerRef, latestUpdates, requestCounter, latestRequest,
      scheduledBuild, buildTimers, armedWith,
      graph, isComputing, error, mounted, workerSeq, inbox, outbox,
      lastCommand, lastMessage, lastStep>>

windowVars ==
    <<updates, limit, limitRef, isMounted, received, frames, limitChanged>>

sessionVars ==
    <<socket, shouldRun, reconnectTimer, sockets, timers, timerSeq, posted,
      attempts, lastEvent>>

-----------------------------------------------------------------------------
(***************************************************************************)
(* The ingestion session.  The functions of fetchWorker.ts read and write  *)
(* the module's globals; here each is an operator from the state before to *)
(* the state after, over the record Session.                               *)
(*                                                                         *)
(*   sockets  every WebSocket object created so far, by handle:            *)
(*            state     connecting | open | failed | closing | closed      *)
(*                      (failed: the error event was delivered, the close  *)
(*                      event is still to come; closing: close() called)   *)
(*            handlers  whether onopen/onclose/onmessage/onerror are set   *)
(*            subscribed whether the subscription request was sent         *)
(*   timers   the setTimeout callbacks that are pending in the event loop  *)
(*   timerSeq the last handle setTimeout returned (handles only grow)      *)
(*   posted   the events the last handler posted to the main thread        *)
(***************************************************************************)
Session ==
    [socket |-> socket, shouldRun |-> shouldRun,
     reconnectTimer |-> reconnectTimer, sockets |-> sockets,
     timers |-> timers, timerSeq |-> timerSeq, posted |-> posted,
     attempts |-> attempts]

Event(type, arg) == [type |-> type, arg |-> arg]

postMessage(s, event) == [s EXCEPT !.posted = Append(@, event)]

updateStatus(s, status) == postMessage(s, Event("status", status))

clearReconnectTimer(s) ==
    IF s.reconnectTimer # null
    THEN [s EXCEPT !.timers = @ \ {s.reconnectTimer}, !.reconnectTimer = null]
    ELSE s

\* setTimeout(callback, 4000): a new pending timer under a new handle.
setTimeout(s) ==
    [s EXCEPT !.timerSeq = @ + 1, !.timers = @ \cup {s.timerSeq + 1}]

scheduleReconnect_NoGuard(s) ==
    IF ~s.shouldRun
    THEN s
    ELSE [setTimeout(s) EXCEPT !.reconnectTimer = s.timerSeq + 1]

scheduleReconnect(s) ==
    IF ~s.shouldRun \/ s.reconnectTimer # null
    THEN s
    ELSE [setTimeout(s) EXCEPT !.reconnectTimer = s.timerSeq + 1]

teardownSocket_KeepsHandlers(s) ==
    IF s.socket = null
    THEN s
    ELSE [s EXCEPT !.socket = null,
                   !.sockets[s.socket].state =
                       IF @ = "closed" THEN "closed" ELSE "closing"]

teardownSocket(s) ==
    IF s.socket = null
    THEN s
    ELSE [s EXCEPT !.socket = null,
                   !.sockets[s.socket].handlers = FALSE,
                   !.sockets[s.socket].state =
                       IF @ = "closed" THEN "closed" ELSE "closing"]

NewSocket == [state |-> "connecting", handlers |-> TRUE, subscribed |-> FALSE]

\* created: whether `new WebSocket(RIS_ENDPOINT)` returns (TRUE) or throws.
connect(s, created) ==
    IF s.socket # null \/ ~s.shouldRun
    THEN s
    ELSE LET s1 == [updateStatus(s, "connecting") EXCEPT !.attempts = @ + 1]
         IN  IF created
             THEN [s1 EXCEPT !.sockets = Append(@, NewSocket),
                             !.socket = Len(s.sockets) + 1]
             ELSE scheduleReconnect(
                      updateStatus(
                          postMessage(s1, Event("error", "Failed to create WebSocket")),
                          "error"))

onopen(s, ws) ==
    IF ~s.shouldRun
    THEN teardownSocket(s)
    ELSE [clearReconnectTimer(updateStatus(s, "connected"))
              EXCEPT !.sockets[ws].subscribed = TRUE]

onerror(s) ==
    updateStatus(postMessage(s, Event("error", "WebSocket connection error")), "error")

onclose_NoReconnect(s) ==
    postMessage(updateStatus([s EXCEPT !.socket = null], "error"), Event("closed", ""))

onclose(s) ==
    LET s1 == postMessage(updateStatus([s EXCEPT !.socket = null], "error"),
                          Event("closed", ""))
    IN  IF s1.shouldRun THEN scheduleReconnect(s1) ELSE s1

\* The frames the feed can deliver: a binary frame, text that is not JSON,
\* a control frame (JSON, not a data envelope), a data envelope.
Frames == {"binary", "malformed", "control", "data"}

handleSocketMessage_Throws(s, frame) ==
    IF frame \in {"binary", "malformed"}
    THEN s
    ELSE postMessage(s, Event("updates", frame))

handleSocketMessage(s, frame) ==
    IF frame = "binary"
    THEN s
    ELSE IF frame = "malformed"
         THEN postMessage(s, Event("error", "Failed to parse update message"))
         ELSE postMessage(s, Event("updates", frame))

reconnectTimerCallback_NoConnect(s, created) ==
    [s EXCEPT !.reconnectTimer = null]

reconnectTimerCallback(s, created) ==
    LET s1 == [s EXCEPT !.reconnectTimer = null]
    IN  IF s1.shouldRun THEN connect(s1, created) ELSE s1

start_NoGuard(s, created) ==
    connect(clearReconnectTimer([s EXCEPT !.shouldRun = TRUE]), created)

start(s, created) ==
    IF s.shouldRun
    THEN s
    ELSE connect(clearReconnectTimer([s EXCEPT !.shouldRun = TRUE]), created)

stop_KeepsTimer(s) ==
    updateStatus(teardownSocket([s EXCEPT !.shouldRun = FALSE]), "error")

stop(s) ==
    updateStatus(
        teardownSocket(clearReconnectTimer([s EXCEPT !.shouldRun = FALSE])),
        "error")

reconnect_NoTeardown(s, created) ==
    connect(clearReconnectTimer([s EXCEPT !.shouldRun = TRUE]), created)

reconnect(s, created) ==
    connect(teardownSocket(clearReconnectTimer([s EXCEPT !.shouldRun = TRUE])),
            created)

-----------------------------------------------------------------------------
\* One handler runs to completion: s is the state it leaves.
Handled(s, event) ==
    /\ socket' = s.socket
    /\ shouldRun' = s.shouldRun
    /\ reconnectTimer' = s.reconnectTimer
    /\ sockets' = s.sockets
    /\ timers' = s.timers
    /\ timerSeq' = s.timerSeq
    /\ posted' = s.posted
    /\ attempts' = s.attempts
    /\ lastEvent' = event
    /\ UNCHANGED <<windowVars, graphVars, aggregatorVars, functionVars, storeVars, serverVars, collectorVars, appVars, layoutVars>>

\* The state a handler starts from: nothing posted yet.
Entry == [Session EXCEPT !.posted = <<>>]

SocketAt(ws, state) == [sockets EXCEPT ![ws].state = state]

Live(ws) == sockets[ws].state \in {"connecting", "open", "failed"}

\* Before any command was posted and any worker event dispatched.
NoCommand == [type |-> "none", updates |-> <<>>, requestId |-> 0]

NoMessage == [type |-> "none", graph |-> [nodes |-> <<>>, links |-> <<>>], requestId |-> 0]

\* The layout stages are not under study.
LayoutIdle ==
    /\ stage = "none"
    /\ sigmaNodes = <<>>
    /\ rendererRef = FALSE
    /\ camera = "reset"
    /\ layoutsSinceReset = 0
    /\ canvasNodes = <<>>
    /\ canvasView = "initial"
    /\ snapshots = 0
    /\ hasFitGraphRef = FALSE
    /\ renderedNodes = 0
    /\ graphSized = FALSE
    /\ fitsSinceReset = 0

\* The server app is not under study: no connection, nothing reported.
AppIdle ==
    /\ clients = <<>>
    /\ connections = <<>>
    /\ delivered = <<>>
    /\ reports = <<>>
    /\ monitorStopped = FALSE
    /\ appClosed = FALSE

\* The update monitor is not under study: nothing written.
CollectorIdle ==
    /\ stdout = <<>>
    /\ written = <<>>
    /\ linesRead = <<>>
    /\ effects = <<>>
    /\ stopperCalled = FALSE
    /\ killed = FALSE

\* The server store is not under study: the table is empty.
ServerIdle ==
    /\ asEdge = <<>>
    /\ processed = {}
    /\ clock = 0

\* no getRecentUpdates has returned yet
NoRead ==
    [returned |-> FALSE, limit |-> 0, results |-> <<>>, overlapped |-> FALSE]

\* The durable window is not under study: nothing stored, nothing pending.
StoreIdle ==
    /\ records = <<>>
    /\ nextId = 1
    /\ transactions = <<>>
    /\ updatesState = <<>>
    /\ storeMounted = FALSE
    /\ readLimit = 0
    /\ clearsRequested = 0
    /\ clearsCompleted = 0
    /\ committed = <<>>
    /\ lastRead = NoRead
    /\ pendingAtClear = {}

\* No pure function under study.
FunctionsIdle ==
    /\ buildArgument = <<>>
    /\ payload = <<>>
    /\ rawArgument = <<>>
    /\ extracted = <<>>

\* The graph worker before its first command.
AggregatorIdle ==
    /\ workerCommand = NoCommand
    /\ workerEvent = NoMessage
    /\ sameAsBefore = FALSE

\* The orchestrator before its first render; where it stays while another
\* component is explored.
GraphIdle ==
    /\ workerRef = null
    /\ latestUpdates = <<>>
    /\ requestCounter = 0
    /\ latestRequest = 0
    /\ scheduledBuild = null
    /\ buildTimers = {}
    /\ armedWith = <<>>
    /\ graph = [nodes |-> <<>>, links |-> <<>>]
    /\ isComputing = FALSE
    /\ error = "none"
    /\ mounted = FALSE
    /\ workerSeq = 0
    /\ inbox = <<>>
    /\ outbox = <<>>
    /\ lastCommand = NoCommand
    /\ lastMessage = NoMessage
    /\ lastStep = "none"

\* The window before its first render; where it stays while the session
\* alone is explored.
WindowIdle ==
    /\ updates = <<>>
    /\ limit = 0
    /\ limitRef = 0
    /\ isMounted = FALSE
    /\ received = <<>>
    /\ frames = 0
    /\ limitChanged = FALSE

SessionInit ==
    /\ WindowIdle
    /\ GraphIdle
    /\ AggregatorIdle
    /\ FunctionsIdle
    /\ StoreIdle
    /\ ServerIdle
    /\ CollectorIdle
    /\ AppIdle
    /\ LayoutIdle
    /\ socket = null
    /\ shouldRun = FALSE
    /\ reconnectTimer = null
    /\ sockets = <<>>
    /\ timers = {}
    /\ timerSeq = 0
    /\ posted = <<>>
    /\ attempts = 0
    /\ lastEvent = "init"

\* ctx.onmessage, command "start"
Start ==
    /\ attempts < MaxAttempts
    /\ \E created \in BOOLEAN : Handled(start(Entry, created), "start")

\* ctx.onmessage, command "stop"
Stop == \E s \in {stop(Entry)} : Handled(s, "stop")

\* ctx.onmessage, command "reconnect"
Reconnect ==
    /\ attempts < MaxAttempts
    /\ \E created \in BOOLEAN : Handled(reconnect(Entry, created), "reconnect")

\* The reconnect timeout elapses and its callback runs.
ReconnectTimerFires ==
    /\ attempts < MaxAttempts
    /\ \E t \in timers, created \in BOOLEAN :
          Handled(reconnectTimerCallback([Entry EXCEPT !.timers = @ \ {t}], created),
                  "timer")

\* The connection of socket ws is established.
SocketOpens ==
    \E ws \in DOMAIN sockets :
        /\ sockets[ws].state = "connecting"
        /\ LET s == [Entry EXCEPT !.sockets = SocketAt(ws, "open")]
           IN  IF sockets[ws].handlers
               THEN Handled(onopen(s, ws), "open")
               ELSE Handled(s, "open unheard")

\* A frame arrives on an open socket whose onmessage is still set.
SocketFrame(frame) ==
    \E ws \in DOMAIN sockets :
        /\ sockets[ws].state = "open"
        /\ sockets[ws].handlers
        /\ Handled(handleSocketMessage(Entry, frame),
                   IF frame = "malformed" THEN "malformed frame" ELSE "message")

SocketMessage == \E frame \in Frames : SocketFrame(frame)

\* The connection of socket ws fails: the error event (close follows).
SocketErrors ==
    \E ws \in DOMAIN sockets :
        /\ sockets[ws].state \in {"connecting", "open"}
        /\ LET s == [Entry EXCEPT !.sockets = SocketAt(ws, "failed")]
           IN  IF sockets[ws].handlers
               THEN Handled(onerror(s), "error")
               ELSE Handled(s, "error unheard")

\* The close event of socket ws: after a failure, after close(), or because
\* the peer closed the connection.
SocketCloses ==
    \E ws \in DOMAIN sockets :
        /\ sockets[ws].state \in {"connecting", "open", "failed", "closing"}
        /\ LET s == [Entry EXCEPT !.sockets = SocketAt(ws, "closed")]
           IN  IF sockets[ws].handlers
               THEN Handled(onclose(s), "close")
               ELSE Handled(s, "close unheard")

\* A further close event for the connection that just closed, delivered
\* before any newer connection exists (the reconnect scenario of the
\* testable properties: "multiple close events arrive before it fires").
\* onclose is still set on that socket: only teardownSocket unsets it.
SocketClosesAgain ==
    \E ws \in DOMAIN sockets :
        /\ ws = Len(sockets)
        /\ sockets[ws].state = "closed"
        /\ sockets[ws].handlers
        /\ Handled(onclose(Entry), "close again")

\* An open, message or error event of a socket that close() was called on
\* (teardownSocket, line 54) is delivered: the event was queued before the
\* socket was torn down.  Its handler runs if the socket still has one.
SupersededSocketEvent ==
    \E ws \in DOMAIN sockets, kind \in {"open", "message", "error"} :
        /\ sockets[ws].state = "closing"
        /\ IF ~sockets[ws].handlers
           THEN Handled(Entry, kind \o " unheard")
           ELSE IF kind = "open"
                THEN Handled(onopen(Entry, ws), "late open")
                ELSE IF kind = "message"
                     THEN Handled(handleSocketMessage(Entry, "data"),
                                  "late message")
                     ELSE Handled(onerror(Entry), "late error")

SessionNext ==
    \/ Start
    \/ Stop
    \/ Reconnect
    \/ ReconnectTimerFires
    \/ SocketOpens
    \/ SocketMessage
    \/ SocketErrors
    \/ SocketCloses
    \/ SocketClosesAgain
    \/ SupersededSocketEvent

SpecSession ==
    SessionInit /\ [][SessionNext]_<<sessionVars, windowVars, graphVars, aggregatorVars, functionVars, storeVars, serverVars, collectorVars, appVars, layoutVars>>

\* The event loop runs a pending timeout callback once its delay has elapsed,
\* and the browser follows a socket's error event with its close event.
SpecSessionFair ==
    /\ SpecSession
    /\ WF_<<sessionVars, windowVars, graphVars, aggregatorVars, functionVars, storeVars, serverVars, collectorVars, appVars, layoutVars>>(ReconnectTimerFires)
    /\ WF_<<sessionVars, windowVars, graphVars, aggregatorVars, functionVars, storeVars, serverVars, collectorVars, appVars, layoutVars>>(SocketCloses)

-----------------------------------------------------------------------------
Posted(event) == \E i \in DOMAIN posted : posted[i] = event

CreationFailed == Posted(Event("error", "Failed to create WebSocket"))

\* C2: single reconnect timer.  At most one reconnect timeout is pending at
\* any time, it is the one reconnectTimer names, and after a close event of
\* a running session (the first or a repeated one) exactly one is pending.
C2_SingleReconnectTimer ==
    /\ Cardinality(timers) <= 1
    /\ timers = (IF reconnectTimer = null THEN {} ELSE {reconnectTimer})
    /\ (lastEvent \in {"close", "close again"} /\ shouldRun)
           => Cardinality(timers) = 1

\* A further close event was delivered while the reconnect timer was pending.
C2_Witness ==
    /\ lastEvent = "close again"
    /\ shouldRun
    /\ reconnectTimer # null

\* C3: explicit stop.  While the session is stopped no reconnect timer is
\* pending, no connection is open or being opened, and the session holds no
\* socket; a connection attempt made from a stopped session is made by a
\* start or a reconnect command, never by a timer or a socket event.
C3_Stopped ==
    ~shouldRun =>
        /\ reconnectTimer = null
        /\ timers = {}
        /\ socket = null
        /\ \A ws \in DOMAIN sockets : ~Live(ws)

C3_ExplicitStop ==
    /\ []C3_Stopped
    /\ [][(~shouldRun /\ attempts' # attempts)
              => lastEvent' \in {"start", "reconnect"}]_sessionVars
    /\ [][lastEvent' = "stop" => ~shouldRun']_sessionVars

\* The close event of the connection that stop closed arrives after the stop.
C3_Witness ==
    /\ lastEvent = "close unheard"
    /\ ~shouldRun
    /\ posted = <<>>

\* C4: explicit reconnect.  A reconnect command, in one step: cancels the
\* pending timer, closes the socket the session held and unsets its
\* handlers, and calls `new WebSocket` (the session then holds the new
\* socket, or the constructor threw and the failure path ran).
C4_ReconnectStep ==
    /\ shouldRun'
    /\ reconnectTimer # null => reconnectTimer \notin timers'
    /\ socket # null =>
           /\ sockets'[socket].state \in {"closing", "closed"}
           /\ ~sockets'[socket].handlers
    /\ attempts' = attempts + 1
    /\ posted'[1] = Event("status", "connecting")
    /\ \/ /\ socket' = Len(sockets) + 1
           /\ sockets'[socket'] = NewSocket
           /\ timers' = {}
        \/ /\ socket' = null
           /\ Posted(Event("error", "Failed to create WebSocket"))'
           /\ timers' = {timerSeq + 1}

C4_ExplicitReconnect ==
    [][lastEvent' = "reconnect" => C4_ReconnectStep]_sessionVars

\* A reconnect command replaced a connection by a new one.
C4_Witness ==
    /\ lastEvent = "reconnect"
    /\ socket # null
    /\ \E ws \in DOMAIN sockets : sockets[ws].state = "closing"

\* C5 as stated: after each connection-level error of a running session (a
\* socket error event, a close event, a constructor failure) an 'error'
\* status was posted and exactly one reconnect timer is pending.
C5_Original ==
    (shouldRun /\ (lastEvent \in {"error", "close"} \/ CreationFailed))
        => /\ Posted(Event("status", "error"))
           /\ Cardinality(timers) = 1

\* C5 amended: a close event and a constructor failure of a running session
\* post an 'error' status and leave exactly one reconnect timer pending; a
\* socket error event posts an error event and an 'error' status and
\* schedules nothing: the session keeps the socket and no timer is pending
\* until the close event follows.
C5_ConnectionErrors ==
    /\ (shouldRun /\ (lastEvent = "close" \/ CreationFailed))
           => /\ Posted(Event("status", "error"))
              /\ Cardinality(timers) = 1
              /\ reconnectTimer \in timers
              /\ socket = null
    /\ (shouldRun /\ lastEvent = "error")
           => /\ Posted(Event("status", "error"))
              /\ Posted(Event("error", "WebSocket connection error"))
              /\ timers = {}
              /\ socket # null

\* The constructor threw while the session was running.
C5_Witness ==
    /\ shouldRun
    /\ CreationFailed
    /\ lastEvent = "timer"

\* C6: transport failures are recovered.  A running session without a socket
\* always has its reconnect timer pending, and from every state in which a
\* running session has no socket, or holds one that failed, a new connection
\* attempt follows unless the session is stopped.
C6_TimerPending ==
    (shouldRun /\ socket = null) => (reconnectTimer # null /\ reconnectTimer \in timers)

C6_Recovers ==
    /\ []C6_TimerPending
    /\ \A n \in 0..(MaxAttempts - 1) :
           (/\ shouldRun
            /\ attempts = n
            /\ \/ socket = null
               \/ sockets[socket].state = "failed")
               ~> (attempts > n \/ ~shouldRun)

\* The timer fired after a failure and the session holds a new socket.
C6_Witness ==
    /\ lastEvent = "timer"
    /\ socket # null
    /\ \E ws \in DOMAIN sockets : ws # socket /\ sockets[ws].state = "closed"

-----------------------------------------------------------------------------
(***************************************************************************)
(* The in-memory window of useRipeRis (part_007).                          *)
(*                                                                         *)
(*   updates       the window (React state), newest first                  *)
(*   limit         the hook's argument; limitRef the ref that mirrors it   *)
(*   received      every update handed to the hook since the last clear,   *)
(*                 in receipt order (what the claims compare against)      *)
(*   frames        the number of "updates" events received                 *)
(*   limitChanged  whether the limit changed after the first render        *)
(*                                                                         *)
(* All updates of one event come from one frame and carry that frame's     *)
(* receivedAt (part_003 line 78); the k-th update of a frame is given      *)
(* prefix k, so that the updates of a frame are distinct and in order.     *)
(*                                                                         *)
(* A string (prefix, peer, node id, key) is the sequence of its pieces; an *)
(* optional number (originAs) is <<>> when null or undefined, else <<n>>.  *)
(***************************************************************************)
RipeUpdate(kind, prefix, peer, originAs, receivedAt) ==
    [kind |-> kind, prefix |-> prefix, peer |-> peer, originAs |-> originAs,
     receivedAt |-> receivedAt]

\* message.updates of the frame that arrives as event number receivedAt
Batch(n, receivedAt) ==
    [k \in 1..n |-> RipeUpdate("announce", <<k>>, <<"peer">>, <<>>, receivedAt)]

\* Array.prototype.slice(0, end) for end >= 0
slice(array, end) ==
    SubSeq(array, 1, IF end < Len(array) THEN end ELSE Len(array))

mergeWindow_OffByOne(previous, messageUpdates, max) ==
    LET merged == messageUpdates \o previous
    IN  IF Len(merged) <= max + 1 THEN merged ELSE slice(merged, max + 1)

mergeWindow_Appends(previous, messageUpdates, max) ==
    LET merged == previous \o messageUpdates
    IN  IF Len(merged) <= max THEN merged ELSE slice(merged, max)

\* the updater passed to setUpdates in case "updates"
mergeWindow(previous, messageUpdates, max) ==
    LET merged == messageUpdates \o previous
    IN  IF Len(merged) <= max THEN merged ELSE slice(merged, max)

\* The session before its first command; where it stays while the window
\* alone is explored.
SessionIdle ==
    /\ socket = null
    /\ shouldRun = FALSE
    /\ reconnectTimer = null
    /\ sockets = <<>>
    /\ timers = {}
    /\ timerSeq = 0
    /\ posted = <<>>
    /\ attempts = 0
    /\ lastEvent = "init"

WindowInit ==
    /\ SessionIdle
    /\ GraphIdle
    /\ AggregatorIdle
    /\ FunctionsIdle
    /\ StoreIdle
    /\ ServerIdle
    /\ CollectorIdle
    /\ AppIdle
    /\ LayoutIdle
    /\ updates = <<>>
    /\ limit \in 0..MaxLimit
    /\ limitRef = limit
    /\ isMounted = TRUE
    /\ received = <<>>
    /\ frames = 0
    /\ limitChanged = FALSE

\* handleFetchMessage, case "updates": an event with n updates arrives
HandleUpdates ==
    /\ frames < MaxFrames
    /\ \E n \in 0..MaxBatch :
          LET messageUpdates == Batch(n, frames + 1)
          IN  /\ frames' = frames + 1
              /\ IF isMounted /\ Len(messageUpdates) > 0
                 THEN /\ updates' = mergeWindow(updates, messageUpdates, limitRef)
                      /\ received' = received \o messageUpdates
                 ELSE UNCHANGED <<updates, received>>
              /\ UNCHANGED <<limit, limitRef, isMounted, limitChanged>>
              /\ UNCHANGED <<sessionVars, graphVars, aggregatorVars, functionVars, storeVars, serverVars, collectorVars, appVars, layoutVars>>

\* the hook is rendered with another limit: the effect on [limit] runs
SetLimit ==
    \E l \in 0..MaxLimit :
        /\ l # limit
        /\ limit' = l
        /\ limitRef' = l
        /\ updates' = slice(updates, l)
        /\ limitChanged' = TRUE
        /\ UNCHANGED <<isMounted, received, frames>>
        /\ UNCHANGED <<sessionVars, graphVars, aggregatorVars, functionVars, storeVars, serverVars, collectorVars, appVars, layoutVars>>

\* clearHistory
ClearHistory ==
    /\ isMounted
    /\ updates' = <<>>
    /\ received' = <<>>
    /\ UNCHANGED <<limit, limitRef, isMounted, frames, limitChanged>>
    /\ UNCHANGED <<sessionVars, graphVars, aggregatorVars, functionVars, storeVars, serverVars, collectorVars, appVars, layoutVars>>

\* the cleanup of the worker effect
WindowUnmount ==
    /\ isMounted
    /\ isMounted' = FALSE
    /\ UNCHANGED <<updates, limit, limitRef, received, frames, limitChanged>>
    /\ UNCHANGED <<sessionVars, graphVars, aggregatorVars, functionVars, storeVars, serverVars, collectorVars, appVars, layoutVars>>

WindowNext ==
    \/ HandleUpdates
    \/ SetLimit
    \/ ClearHistory
    \/ WindowUnmount

SpecWindow ==
    WindowInit /\ [][WindowNext]_<<windowVars, sessionVars, graphVars, aggregatorVars, functionVars, storeVars, serverVars, collectorVars, appVars, layoutVars>>

-----------------------------------------------------------------------------
InWindow(u) == \E i \in DOMAIN updates : updates[i] = u

\* C9: window bounding.  The window never holds more than limit updates;
\* with the limit unchanged, once limit or more updates were received it
\* holds exactly limit of them; and they are the most recently received
\* ones: every received update that is not in the window was received no
\* later (receivedAt, one stamp per frame) than every update that is.
C9_WindowBounding ==
    /\ Len(updates) <= limit
    /\ (~limitChanged /\ Len(received) >= limit) => Len(updates) = limit
    /\ (~limitChanged /\ Len(received) < limit) => Len(updates) = Len(received)
    /\ \A i \in DOMAIN updates :
           /\ \E j \in DOMAIN received : received[j] = updates[i]
           /\ \A k \in DOMAIN updates : updates[k] = updates[i] => k = i
    /\ \A j \in DOMAIN received :
           ~InWindow(received[j]) =>
               \A i \in DOMAIN updates :
                   received[j].receivedAt <= updates[i].receivedAt

\* More than limit updates were received, one batch alone larger than the
\* limit, and the window holds limit of them.
C9_Witness ==
    /\ ~limitChanged
    /\ limit > 0
    /\ Len(updates) = limit
    /\ \E j \in DOMAIN received : received[j].prefix[1] > limit
    /\ \E i \in DOMAIN updates : updates[i].receivedAt > 1

\* C10: window ordering.  Updates of a later frame precede those of an
\* earlier frame, updates of one frame are in the frame's order, and a step
\* puts the head of the new frame in front of a head of the old window:
\* what leaves the window is a tail of it (its oldest entries).
C10_Ordered ==
    \A i, j \in DOMAIN updates :
        i < j =>
            \/ updates[i].receivedAt > updates[j].receivedAt
            \/ /\ updates[i].receivedAt = updates[j].receivedAt
               /\ updates[i].prefix[1] < updates[j].prefix[1]

C10_EvictsOldest ==
    \E n \in 0..Len(updates'), k \in 0..Len(updates) :
        /\ n + k = Len(updates')
        /\ SubSeq(updates', n + 1, n + k) = SubSeq(updates, 1, k)
        /\ \A i \in 1..n :
               /\ Len(received') >= Len(received) + i
               /\ updates'[i] = received'[Len(received) + i]

C10_WindowOrdering ==
    /\ []C10_Ordered
    /\ [][C10_EvictsOldest]_windowVars

\* The window holds two updates of one frame and one of an earlier frame,
\* and an update of that earlier frame was evicted.
C10_Witness ==
    /\ Len(updates) >= 3
    /\ updates[1].receivedAt = updates[2].receivedAt
    /\ updates[3].receivedAt < updates[2].receivedAt
    /\ \E j \in DOMAIN received :
           /\ received[j].receivedAt = updates[3].receivedAt
           /\ ~InWindow(received[j])

-----------------------------------------------------------------------------
(***************************************************************************)
(* The aggregator of graphWorker.ts.  A Map is the sequence of its entries *)
(* in insertion order; a key is the string the code builds, as the         *)
(* sequence of its pieces.                                                 *)
(***************************************************************************)
EMPTY_GRAPH == [nodes |-> <<>>, links |-> <<>>]

makeNodeKey(type, identifier) == <<type, ":">> \o identifier

makeLinkKey(source, target, kind, relation) ==
    source \o <<"->">> \o target \o <<":", relation, ":", kind>>

\* Map.prototype.get / has: the position of the entry under key, 0 if none
MapIndex(map, key) ==
    IF \E i \in DOMAIN map : map[i].key = key
    THEN CHOOSE i \in DOMAIN map : map[i].key = key
    ELSE 0

trackNode_NoLookup(map, type, identifier, label) ==
    LET key == makeNodeKey(type, identifier)
    IN  Append(map, [key |-> key,
                     value |-> [id |-> key, label |-> label,
                                type |-> type, count |-> 1]])

\* trackNode leaves the map changed and returns the accumulator: its id is
\* the key, so the callers below take makeNodeKey for `node.id`.
trackNode(map, type, identifier, label) ==
    LET key == makeNodeKey(type, identifier)
        at == MapIndex(map, key)
    IN  IF at # 0
        THEN [map EXCEPT ![at].value.count = @ + 1]
        ELSE Append(map, [key |-> key,
                          value |-> [id |-> key, label |-> label,
                                     type |-> type, count |-> 1]])

trackLink(map, source, target, kind, relation) ==
    LET key == makeLinkKey(source, target, kind, relation)
        at == MapIndex(map, key)
    IN  IF at # 0
        THEN [map EXCEPT ![at].value.count = @ + 1]
        ELSE Append(map, [key |-> key,
                          value |-> [source |-> source, target |-> target,
                                     kind |-> kind, relation |-> relation,
                                     count |-> 1]])

trackUpdate_NoPeerOrigin(maps, update) ==
    LET peerId == makeNodeKey("peer", update.peer)
        prefixId == makeNodeKey("prefix", update.prefix)
        nodes1 == trackNode(maps.nodeMap, "peer", update.peer, update.peer)
        nodes2 == trackNode(nodes1, "prefix", update.prefix, update.prefix)
        links1 == trackLink(maps.linkMap, peerId, prefixId, update.kind, "peer-prefix")
    IN  IF Len(update.originAs) = 1
        THEN LET originLabel == <<"AS">> \o update.originAs
                 originId == makeNodeKey("origin", update.originAs)
                 nodes3 == trackNode(nodes2, "origin", update.originAs, originLabel)
                 links2 == trackLink(links1, originId, prefixId, update.kind,
                                     "origin-prefix")
             IN  [nodeMap |-> nodes3, linkMap |-> links2]
        ELSE [nodeMap |-> nodes2, linkMap |-> links1]

\* One iteration of the loop of buildGraph over `update`.
trackUpdate(maps, update) ==
    LET peerId == makeNodeKey("peer", update.peer)
        prefixId == makeNodeKey("prefix", update.prefix)
        nodes1 == trackNode(maps.nodeMap, "peer", update.peer, update.peer)
        nodes2 == trackNode(nodes1, "prefix", update.prefix, update.prefix)
        links1 == trackLink(maps.linkMap, peerId, prefixId, update.kind, "peer-prefix")
    IN  IF Len(update.originAs) = 1
        THEN LET originLabel == <<"AS">> \o update.originAs
                 originId == makeNodeKey("origin", update.originAs)
                 nodes3 == trackNode(nodes2, "origin", update.originAs, originLabel)
                 links2 == trackLink(links1, originId, prefixId, update.kind,
                                     "origin-prefix")
                 links3 == trackLink(links2, peerId, originId, update.kind,
                                     "peer-origin")
             IN  [nodeMap |-> nodes3, linkMap |-> links3]
        ELSE [nodeMap |-> nodes2, linkMap |-> links1]

RECURSIVE trackAll(_, _)
trackAll(maps, batch) ==
    IF batch = <<>>
    THEN maps
    ELSE trackAll(trackUpdate(maps, Head(batch)), Tail(batch))

\* Array.from(map.values())
MapValues(map) == [i \in DOMAIN map |-> map[i].value]

buildGraph_Accumulates(batch) ==
    LET kept == workerEvent.graph
        nodeMap == [i \in DOMAIN kept.nodes |->
                        [key |-> kept.nodes[i].id, value |-> kept.nodes[i]]]
        linkMap == [i \in DOMAIN kept.links |->
                        [key |-> makeLinkKey(kept.links[i].source,
                                             kept.links[i].target,
                                             kept.links[i].kind,
                                             kept.links[i].relation),
                         value |-> kept.links[i]]]
        maps == trackAll([nodeMap |-> nodeMap, linkMap |-> linkMap], batch)
    IN  [nodes |-> MapValues(maps.nodeMap), links |-> MapValues(maps.linkMap)]

buildGraph(batch) ==
    LET maps == trackAll([nodeMap |-> <<>>, linkMap |-> <<>>], batch)
    IN  [nodes |-> MapValues(maps.nodeMap), links |-> MapValues(maps.linkMap)]

graphWorkerOnMessage_StaleId(command) ==
    [type |-> "graph",
     graph |-> IF command.type = "build" THEN buildGraph(command.updates)
               ELSE EMPTY_GRAPH,
     requestId |-> command.requestId - 1]

\* ctx.onmessage of the graph worker: the event it posts for a command
graphWorkerOnMessage(command) ==
    [type |-> "graph",
     graph |-> IF command.type = "build" THEN buildGraph(command.updates)
               ELSE EMPTY_GRAPH,
     requestId |-> command.requestId]

-----------------------------------------------------------------------------
(***************************************************************************)
(* The orchestrator useGraphData.  Its callbacks become operators over the *)
(* record Hook of its refs and React state.                                *)
(*                                                                         *)
(*   buildTimers  the pending setTimeout callbacks of the rebuild debounce *)
(*   armedWith    the `updates` of the render whose effect armed the timer *)
(*   inbox        the commands posted to the live worker, not yet handled  *)
(*   outbox       the events workers posted, not yet dispatched; an event  *)
(*                carries the worker it came from                          *)
(*   lastCommand  the last command posted to a worker (history)            *)
(*   lastMessage  the last worker event given to handleMessage or          *)
(*                handleError (history)                                    *)
(*   lastStep     the effect or callback of the hook that ran last         *)
(*                (history)                                                *)
(* Events are dispatched in any order: nothing below relies on the order   *)
(* of the message channel.                                                 *)
(***************************************************************************)
Hook ==
    [workerRef |-> workerRef, latestUpdates |-> latestUpdates,
     requestCounter |-> requestCounter, latestRequest |-> latestRequest,
     scheduledBuild |-> scheduledBuild, buildTimers |-> buildTimers,
     armedWith |-> armedWith,
     graph |-> graph, isComputing |-> isComputing, error |-> error,
     workerSeq |-> workerSeq, inbox |-> inbox, outbox |-> outbox,
     lastCommand |-> lastCommand]

clearScheduledBuild(h) ==
    IF h.scheduledBuild # null
    THEN [h EXCEPT !.buildTimers = @ \ {h.scheduledBuild},
                   !.scheduledBuild = null,
                   !.armedWith = <<>>]
    ELSE h

nextRequestId_KeepsLatest(h) ==
    [h EXCEPT !.requestCounter = @ + 1]

nextRequestId(h) ==
    [h EXCEPT !.requestCounter = @ + 1, !.latestRequest = h.requestCounter + 1]

\* worker.postMessage(command)
postCommand(h, command) ==
    [h EXCEPT !.inbox = Append(@, command), !.lastCommand = command]

sendGraphCommand_IdBeforeIncrement(h, updatesToSend) ==
    IF h.workerRef = null
    THEN [h EXCEPT !.isComputing = FALSE]
    ELSE LET h1 == nextRequestId(h)
             requestId == h.requestCounter
         IN  IF Len(updatesToSend) = 0
             THEN postCommand(
                      [h1 EXCEPT !.graph = EMPTY_GRAPH, !.isComputing = FALSE],
                      [type |-> "reset", updates |-> <<>>, requestId |-> requestId])
             ELSE postCommand(
                      [h1 EXCEPT !.isComputing = TRUE],
                      [type |-> "build", updates |-> updatesToSend,
                       requestId |-> requestId])

\* sendGraphCommand (lines 37-59)
sendGraphCommand(h, updatesToSend) ==
    IF h.workerRef = null
    THEN [h EXCEPT !.isComputing = FALSE]
    ELSE LET h1 == nextRequestId(h)
             requestId == h1.requestCounter
         IN  IF Len(updatesToSend) = 0
             THEN postCommand(
                      [h1 EXCEPT !.graph = EMPTY_GRAPH, !.isComputing = FALSE],
                      [type |-> "reset", updates |-> <<>>, requestId |-> requestId])
             ELSE postCommand(
                      [h1 EXCEPT !.isComputing = TRUE],
                      [type |-> "build", updates |-> updatesToSend,
                       requestId |-> requestId])

\* setTimeout(callback, GRAPH_BUILD_INTERVAL_MS) in the updates effect: a
\* new pending timer, under a handle that no pending timer has
armBuildTimer(h, renderedUpdates) ==
    LET handle == Cardinality(h.buildTimers) + 1
    IN  [h EXCEPT !.buildTimers = @ \cup {handle},
                  !.scheduledBuild = handle,
                  !.armedWith = renderedUpdates]

updatesEffect_KeepsTimer(h, renderedUpdates) ==
    LET h1 == [h EXCEPT !.latestUpdates = renderedUpdates]
    IN  IF h1.workerRef = null
        THEN [h1 EXCEPT !.isComputing = FALSE]
        ELSE IF Len(renderedUpdates) = 0
             THEN sendGraphCommand(h1, <<>>)
             ELSE LET h2 == [h1 EXCEPT !.isComputing = TRUE]
                  IN  IF h2.scheduledBuild # null
                      THEN h2
                      ELSE armBuildTimer(h2, renderedUpdates)

updatesEffect_IgnoresMissingWorker(h, renderedUpdates) ==
    LET h1 == [h EXCEPT !.latestUpdates = renderedUpdates]
    IN  IF Len(renderedUpdates) = 0
        THEN sendGraphCommand(clearScheduledBuild(h1), <<>>)
        ELSE LET h2 == [h1 EXCEPT !.isComputing = TRUE]
             IN  IF h2.scheduledBuild # null
                 THEN h2
                 ELSE armBuildTimer(h2, renderedUpdates)

\* the effect on [updates] (lines 61-85)
updatesEffect(h, renderedUpdates) ==
    LET h1 == [h EXCEPT !.latestUpdates = renderedUpdates]
    IN  IF h1.workerRef = null
        THEN [h1 EXCEPT !.isComputing = FALSE]
        ELSE IF Len(renderedUpdates) = 0
             THEN sendGraphCommand(clearScheduledBuild(h1), <<>>)
             ELSE LET h2 == [h1 EXCEPT !.isComputing = TRUE]
                  IN  IF h2.scheduledBuild # null
                      THEN h2
                      ELSE armBuildTimer(h2, renderedUpdates)

buildTimerCallback_StaleClosure(h) ==
    sendGraphCommand([h EXCEPT !.scheduledBuild = null], h.armedWith)

\* the timeout callback (lines 81-84)
buildTimerCallback(h) ==
    sendGraphCommand([h EXCEPT !.scheduledBuild = null], h.latestUpdates)

handleMessage_NoStaleCheck(h, message) ==
    IF message.type # "graph"
    THEN h
    ELSE [h EXCEPT !.graph = message.graph, !.isComputing = FALSE,
                   !.error = "none"]

handleMessage(h, message) ==
    IF message.type # "graph"
    THEN h
    ELSE IF message.requestId # h.latestRequest
         THEN h
         ELSE [h EXCEPT !.graph = message.graph, !.isComputing = FALSE,
                        !.error = "none"]

handleError(h) ==
    [h EXCEPT !.isComputing = FALSE, !.error = "Graph worker error"]

\* the effect that creates the worker (lines 87-143); outcome says whether
\* Worker is undefined, its constructor throws, or a worker is created
workerEffect(h, outcome) ==
    IF outcome = "unsupported"
    THEN [h EXCEPT !.graph = EMPTY_GRAPH, !.isComputing = FALSE,
                   !.error = "Web Workers are not supported"]
    ELSE IF outcome = "throws"
         THEN [h EXCEPT !.graph = EMPTY_GRAPH, !.isComputing = FALSE,
                        !.error = "Failed to start graph worker",
                        !.workerRef = null]
         ELSE sendGraphCommand(
                  [h EXCEPT !.error = "none",
                            !.workerSeq = @ + 1,
                            !.workerRef = h.workerSeq + 1,
                            !.inbox = <<>>],
                  h.latestUpdates)

cleanup_KeepsTimer(h) ==
    [h EXCEPT !.workerRef = null, !.inbox = <<>>]

\* the cleanups of the worker effect (lines 145-151, 92-94, 108-110) and of
\* the last effect (lines 154-159); terminate() drops the worker's queue
cleanup(h) ==
    clearScheduledBuild([h EXCEPT !.workerRef = null, !.inbox = <<>>])

-----------------------------------------------------------------------------
\* The arrays the hook is rendered with: up to MaxUpdates copies of one
\* announce, so that arrays of different lengths aggregate to different
\* graphs (the counts differ).
GraphUpdates ==
    {RipeUpdate("announce", <<"203.0.113.0/24">>, <<"192.0.2.1">>, <<64496>>, 0)}

RECURSIVE SeqsUpTo(_, _)
SeqsUpTo(S, n) ==
    IF n = 0
    THEN {<<>>}
    ELSE LET shorter == SeqsUpTo(S, n - 1)
         IN  shorter \cup {Append(q, x) : q \in shorter, x \in S}

Batches == SeqsUpTo(GraphUpdates, MaxUpdates)

\* One callback of the hook runs to completion: h is the state it leaves.
Rendered(h) ==
    /\ workerRef' = h.workerRef
    /\ latestUpdates' = h.latestUpdates
    /\ requestCounter' = h.requestCounter
    /\ latestRequest' = h.latestRequest
    /\ scheduledBuild' = h.scheduledBuild
    /\ buildTimers' = h.buildTimers
    /\ armedWith' = h.armedWith
    /\ graph' = h.graph
    /\ isComputing' = h.isComputing
    /\ error' = h.error
    /\ workerSeq' = h.workerSeq
    /\ inbox' = h.inbox
    /\ outbox' = h.outbox
    /\ lastCommand' = h.lastCommand
    /\ UNCHANGED <<sessionVars, windowVars, aggregatorVars, functionVars, storeVars, serverVars, collectorVars, appVars, layoutVars>>

Without(seq, i) == SubSeq(seq, 1, i - 1) \o SubSeq(seq, i + 1, Len(seq))

\* The hook before its effects have run: the initial React state and refs;
\* latestUpdatesRef holds the array of the first render.
GraphInit ==
    /\ SessionIdle
    /\ WindowIdle
    /\ AggregatorIdle
    /\ FunctionsIdle
    /\ StoreIdle
    /\ ServerIdle
    /\ CollectorIdle
    /\ AppIdle
    /\ LayoutIdle
    /\ workerRef = null
    /\ latestUpdates \in Batches
    /\ requestCounter = 0
    /\ latestRequest = 0
    /\ scheduledBuild = null
    /\ buildTimers = {}
    /\ armedWith = <<>>
    /\ graph = EMPTY_GRAPH
    /\ isComputing = FALSE
    /\ error = "none"
    /\ mounted = FALSE
    /\ workerSeq = 0
    /\ inbox = <<>>
    /\ outbox = <<>>
    /\ lastCommand = NoCommand
    /\ lastMessage = NoMessage
    /\ lastStep = "none"

\* The effects run after a mount: the updates effect (no worker yet), then
\* the worker effect.
Mount ==
    /\ ~mounted
    /\ workerSeq < MaxWorkers
    /\ requestCounter < MaxRequests
    /\ \E outcome \in {"created", "unsupported", "throws"} :
          Rendered(workerEffect(updatesEffect(Hook, latestUpdates), outcome))
    /\ mounted' = TRUE
    /\ lastStep' = "mount"
    /\ UNCHANGED lastMessage

\* The hook is rendered with another array: the updates effect runs.
UpdatesChange ==
    /\ mounted
    /\ requestCounter < MaxRequests
    /\ \E renderedUpdates \in Batches :
          Rendered(updatesEffect(Hook, renderedUpdates))
    /\ lastStep' = "updates"
    /\ UNCHANGED <<mounted, lastMessage>>

\* The debounce delay elapses and the timeout callback runs.
BuildTimerFires ==
    /\ requestCounter < MaxRequests
    /\ \E t \in buildTimers :
          Rendered(buildTimerCallback([Hook EXCEPT !.buildTimers = @ \ {t}]))
    /\ lastStep' = "timer"
    /\ UNCHANGED <<mounted, lastMessage>>

\* The live worker handles the next command of its queue and posts the graph.
WorkerAnswers ==
    /\ workerRef # null
    /\ inbox # <<>>
    /\ Rendered([Hook EXCEPT
                    !.inbox = Tail(@),
                    !.outbox = Append(@, [worker |-> workerRef,
                                          message |-> graphWorkerOnMessage(Head(inbox))])])
    /\ UNCHANGED <<mounted, lastMessage, lastStep>>

\* The live worker throws while handling the next command: an error event.
WorkerThrows ==
    /\ workerRef # null
    /\ inbox # <<>>
    /\ Rendered([Hook EXCEPT
                    !.inbox = Tail(@),
                    !.outbox = Append(@, [worker |-> workerRef,
                                          message |-> [type |-> "error",
                                                       graph |-> EMPTY_GRAPH,
                                                       requestId |-> Head(inbox).requestId]])])
    /\ UNCHANGED <<mounted, lastMessage, lastStep>>

\* An event of the live worker is dispatched to handleMessage / handleError.
Dispatch ==
    \E i \in DOMAIN outbox :
        /\ outbox[i].worker = workerRef
        /\ LET message == outbox[i].message
               h == [Hook EXCEPT !.outbox = Without(@, i)]
           IN  /\ IF message.type = "graph"
                  THEN Rendered(handleMessage(h, message))
                  ELSE Rendered(handleError(h))
               /\ lastMessage' = message
               /\ lastStep' = (IF message.type = "graph" THEN "message" ELSE "error")
        /\ UNCHANGED mounted

\* An event of a terminated worker: its listeners were removed.
DispatchUnheard ==
    \E i \in DOMAIN outbox :
        /\ outbox[i].worker # workerRef
        /\ Rendered([Hook EXCEPT !.outbox = Without(@, i)])
        /\ UNCHANGED <<mounted, lastMessage, lastStep>>

\* The effects are cleaned up (unmount, or the remount of strict mode).
Unmount ==
    /\ mounted
    /\ Rendered(cleanup(Hook))
    /\ mounted' = FALSE
    /\ lastStep' = "unmount"
    /\ UNCHANGED lastMessage

GraphNext ==
    \/ Mount
    \/ UpdatesChange
    \/ BuildTimerFires
    \/ WorkerAnswers
    \/ WorkerThrows
    \/ Dispatch
    \/ DispatchUnheard
    \/ Unmount

SpecGraph ==
    GraphInit /\ [][GraphNext]_<<graphVars, sessionVars, windowVars, aggregatorVars, functionVars, storeVars, serverVars, collectorVars, appVars, layoutVars>>

-----------------------------------------------------------------------------
allVars ==
    <<graphVars, sessionVars, windowVars, aggregatorVars, functionVars, storeVars, serverVars, collectorVars, appVars, layoutVars>>

\* The graph the worker returns for a command.
Result(command) == graphWorkerOnMessage(command).graph

\* This step dispatches the graph event outbox[i] of the live worker.
DispatchesGraph(i) ==
    /\ outbox[i].worker = workerRef
    /\ outbox[i].message.type = "graph"
    /\ outbox' = Without(outbox, i)
    /\ lastMessage' = outbox[i].message

\* C1: stale-result rejection.  A dispatched graph event whose requestId is
\* not the highest issued leaves the displayed graph as it is, one whose
\* requestId is the highest issued is displayed; and the displayed graph
\* becomes a non-empty graph only by such an event.
C1_Dispatched ==
    \A i \in DOMAIN outbox :
        DispatchesGraph(i) =>
            IF outbox[i].message.requestId = latestRequest
            THEN graph' = outbox[i].message.graph
            ELSE graph' = graph

C1_OnlyLatest ==
    (graph' # graph /\ graph' # EMPTY_GRAPH) =>
        /\ lastMessage' # lastMessage
        /\ lastMessage'.type = "graph"
        /\ lastMessage'.requestId = latestRequest
        /\ latestRequest = requestCounter
        /\ graph' = lastMessage'.graph

C1_StaleResultRejection ==
    /\ [][C1_Dispatched]_allVars
    /\ [][C1_OnlyLatest]_allVars

\* The answer to the latest build was displayed, and then the answer to an
\* earlier request, carrying another graph, was dispatched.
C1_Witness ==
    /\ workerRef # null
    /\ lastCommand.type = "build"
    /\ lastCommand.requestId = latestRequest
    /\ ~isComputing
    /\ error = "none"
    /\ graph = Result(lastCommand)
    /\ lastMessage.type = "graph"
    /\ lastMessage.requestId < latestRequest
    /\ lastMessage.graph # graph
    /\ lastMessage.graph # EMPTY_GRAPH

\* C7: rebuild throttling.  At most one debounce timer is pending, the one
\* scheduledBuild names; a render with a non-empty array while it is pending
\* arms nothing and issues nothing; when it fires, exactly one build command
\* is posted, under the next requestId, with the array of the latest render.
C7_OneTimer ==
    /\ Cardinality(buildTimers) <= 1
    /\ buildTimers = (IF scheduledBuild = null THEN {} ELSE {scheduledBuild})

C7_ChangeWhileArmed ==
    (UpdatesChange /\ scheduledBuild # null /\ latestUpdates' # <<>>) =>
        /\ buildTimers' = buildTimers
        /\ scheduledBuild' = scheduledBuild
        /\ requestCounter' = requestCounter
        /\ inbox' = inbox

C7_Fires ==
    BuildTimerFires =>
        /\ latestUpdates # <<>>
        /\ buildTimers' = {}
        /\ scheduledBuild' = null
        /\ requestCounter' = requestCounter + 1
        /\ inbox' = Append(inbox, [type |-> "build", updates |-> latestUpdates,
                                   requestId |-> requestCounter + 1])

C7_RebuildThrottling ==
    /\ []C7_OneTimer
    /\ [][C7_ChangeWhileArmed]_allVars
    /\ [][C7_Fires]_allVars

\* The timer fired and the build it posted carries an array other than the
\* one of the render that armed it.
C7_Witness ==
    /\ workerSeq = 1
    /\ scheduledBuild = null
    /\ armedWith # <<>>
    /\ lastCommand.type = "build"
    /\ lastCommand.requestId >= 2
    /\ lastCommand.updates # armedWith
    /\ lastCommand.updates = latestUpdates
    /\ inbox # <<>>
    /\ inbox[Len(inbox)] = lastCommand

\* C8: the window becomes empty while the worker exists.  That render cancels
\* the pending timer, posts a reset under the next requestId at once and
\* displays the empty graph; while the array stays empty the empty graph
\* stays displayed and the reset is the latest request; and the displayed
\* graph leaves the empty graph only when the answer to the latest request,
\* a build of a non-empty array, is dispatched.
C8_Emptied ==
    (UpdatesChange /\ workerRef # null /\ latestUpdates' = <<>>) =>
        /\ buildTimers' = {}
        /\ scheduledBuild' = null
        /\ requestCounter' = requestCounter + 1
        /\ latestRequest' = requestCounter + 1
        /\ inbox' = Append(inbox, [type |-> "reset", updates |-> <<>>,
                                   requestId |-> requestCounter + 1])
        /\ graph' = EMPTY_GRAPH

C8_WhileEmpty ==
    (workerRef # null /\ latestUpdates = <<>>) =>
        /\ graph = EMPTY_GRAPH
        /\ buildTimers = {}
        /\ lastCommand.type = "reset"
        /\ lastCommand.requestId = latestRequest

C8_UntilBuildAccepted ==
    (graph = EMPTY_GRAPH /\ graph' # EMPTY_GRAPH) =>
        /\ lastMessage'.type = "graph"
        /\ lastMessage'.requestId = latestRequest
        /\ lastCommand.type = "build"
        /\ lastCommand.requestId = latestRequest
        /\ lastCommand.updates # <<>>
        /\ graph' = buildGraph(lastCommand.updates)

C8_EmptyWindow ==
    /\ []C8_WhileEmpty
    /\ [][C8_Emptied]_allVars
    /\ [][C8_UntilBuildAccepted]_allVars

\* The array became empty after a build was issued: the reset is the last
\* command, the empty graph is displayed, the build's answer is in flight.
C8_Witness ==
    /\ workerSeq = 1
    /\ workerRef # null
    /\ latestUpdates = <<>>
    /\ graph = EMPTY_GRAPH
    /\ lastCommand.type = "reset"
    /\ lastCommand.requestId >= 2
    /\ \E i \in DOMAIN outbox :
           /\ outbox[i].message.type = "graph"
           /\ outbox[i].message.graph # EMPTY_GRAPH

\* The hook is mounted and its worker effect could not create the worker.
Degraded == mounted /\ workerRef = null

\* C11: degraded mode.  While the hook is mounted without a worker an error
\* is reported, the displayed graph is the empty payload, isComputing is
\* false, no debounce timer is pending and no command waits for an answer;
\* a window change in that mode arms no timer, issues no request and leaves
\* graph, isComputing and error as they are.
C11_Resolved ==
    Degraded =>
        /\ error \in {"Web Workers are not supported",
                      "Failed to start graph worker"}
        /\ graph = EMPTY_GRAPH
        /\ ~isComputing
        /\ buildTimers = {}
        /\ scheduledBuild = null
        /\ inbox = <<>>

C11_LaterChange ==
    (Degraded /\ UpdatesChange) =>
        /\ Degraded'
        /\ requestCounter' = requestCounter
        /\ latestRequest' = latestRequest
        /\ lastCommand' = lastCommand
        /\ inbox' = inbox
        /\ buildTimers' = {}
        /\ graph' = EMPTY_GRAPH
        /\ ~isComputing'
        /\ error' = error

C11_DegradedMode ==
    /\ []C11_Resolved
    /\ [][C11_LaterChange]_allVars

\* After a worker had answered a build, a later mount failed to create the
\* worker and the window then changed to a non-empty array.
C11_Witness ==
    /\ Degraded
    /\ workerSeq >= 1
    /\ lastCommand.type = "build"
    /\ lastMessage.graph # EMPTY_GRAPH
    /\ lastStep = "updates"
    /\ latestUpdates # <<>>
    /\ error = "Failed to start graph worker"

\* C12: the worker raises an error event.  As claimed: handling it leaves
\* the empty graph displayed with an error, and that error stays until the
\* pipeline is restarted (the next mount); no worker response clears it.
C12_EmptyOnError ==
    (Dispatch /\ lastStep' = "error") =>
        /\ graph' = EMPTY_GRAPH
        /\ error' = "Graph worker error"

C12_ErrorPersists ==
    (error = "Graph worker error" /\ error' # error) => Mount

C12_Original ==
    /\ [][C12_EmptyOnError]_allVars
    /\ [][C12_ErrorPersists]_allVars

\* C13: a text frame that is not valid JSON.  Handling it posts exactly one
\* error event and no updates event, and leaves the socket, the running
\* flag, the reconnect timer, every connection and every pending timeout as
\* they were; a frame that parses, handled afterwards, is still forwarded
\* as one updates event.
C13_Malformed ==
    SocketFrame("malformed") =>
        /\ posted' = <<Event("error", "Failed to parse update message")>>
        /\ socket' = socket
        /\ shouldRun' = shouldRun
        /\ reconnectTimer' = reconnectTimer
        /\ sockets' = sockets
        /\ timers' = timers
        /\ attempts' = attempts

C13_ForwardsAfterwards ==
    \A frame \in {"control", "data"} :
        (lastEvent = "malformed frame" /\ SocketFrame(frame)) =>
            posted' = <<Event("updates", frame)>>

C13_MalformedFrame ==
    /\ [][C13_Malformed]_allVars
    /\ [][C13_ForwardsAfterwards]_allVars
    /\ [](lastEvent = "malformed frame" =>
              \E ws \in DOMAIN sockets :
                  sockets[ws].state = "open" /\ sockets[ws].handlers)

\* A malformed frame was handled on a reconnected session: one error event,
\* the session still running on its open socket.
C13_Witness ==
    /\ lastEvent = "malformed frame"
    /\ posted = <<Event("error", "Failed to parse update message")>>
    /\ shouldRun
    /\ socket # null
    /\ socket >= 2
    /\ sockets[socket].state = "open"
    /\ reconnectTimer = null

-----------------------------------------------------------------------------
(***************************************************************************)
(* The graph worker taken alone: it handles one command after the other,   *)
(* build commands with any batch over AggregatorUpdates and reset          *)
(* commands, under increasing request ids.                                 *)
(***************************************************************************)
AggregatorUpdates ==
    {RipeUpdate(kind, prefix, <<"192.0.2.1">>, originAs, 0) :
        kind \in {"announce", "withdraw"},
        prefix \in {<<"203.0.113.0/24">>, <<"198.51.100.0/24">>},
        originAs \in {<<>>, <<64496>>}}

AggregatorBatches == SeqsUpTo(AggregatorUpdates, MaxBuild)

AggregatorInit ==
    /\ SessionIdle
    /\ WindowIdle
    /\ GraphIdle
    /\ AggregatorIdle
    /\ FunctionsIdle
    /\ StoreIdle
    /\ ServerIdle
    /\ CollectorIdle
    /\ AppIdle
    /\ LayoutIdle

\* ctx.onmessage runs for `command`
WorkerHandles(command) ==
    /\ workerCommand.requestId < MaxCommands
    /\ workerCommand' = command
    /\ workerEvent' = graphWorkerOnMessage(command)
    /\ sameAsBefore' = (/\ command.type = "build"
                         /\ workerCommand.type = "build"
                         /\ command.updates = workerCommand.updates)
    /\ UNCHANGED <<sessionVars, windowVars, graphVars, functionVars, storeVars, serverVars, collectorVars, appVars, layoutVars>>

WorkerBuild ==
    \E batch \in AggregatorBatches :
        WorkerHandles([type |-> "build", updates |-> batch,
                       requestId |-> workerCommand.requestId + 1])

WorkerReset ==
    WorkerHandles([type |-> "reset", updates |-> <<>>,
                   requestId |-> workerCommand.requestId + 1])

AggregatorNext ==
    \/ WorkerBuild
    \/ WorkerReset

SpecAggregator ==
    AggregatorInit /\ [][AggregatorNext]_allVars

\* C14: the aggregator is stateless and deterministic.  A build of the
\* batch that the command before it built returns the same nodes and the
\* same links; a build of the empty batch returns the empty graph, and a
\* reset does, whatever was built before; so a payload never carries
\* anything of an earlier build.
C14_EmptyBatch ==
    (workerCommand.type = "reset"
        \/ (workerCommand.type = "build" /\ workerCommand.updates = <<>>))
        => workerEvent.graph = EMPTY_GRAPH

C14_SameBatchAgain ==
    (workerCommand.type = "build" /\ workerCommand'.type = "build"
        /\ workerCommand'.updates = workerCommand.updates)
        => /\ workerEvent'.graph.nodes = workerEvent.graph.nodes
           /\ workerEvent'.graph.links = workerEvent.graph.links

C14_OnlyTheBatch ==
    (workerCommand'.type = "build" /\ Len(workerCommand'.updates) = 1)
        => /\ Len(workerEvent'.graph.nodes) <= 3
           /\ \A i \in DOMAIN workerEvent'.graph.nodes :
                  workerEvent'.graph.nodes[i].count = 1

-----------------------------------------------------------------------------
(***************************************************************************)
(* buildGraph taken alone, called once on any batch over BuildUpdates.     *)
(* peer and prefix are strings the feed supplies (part_003 lines 79, 32,   *)
(* 37, 111-114 accept any string): next to an address and a prefix the    *)
(* batches hold a peer and a prefix that contain "->prefix:", the text     *)
(* that trackLink puts between a source id and a target id.                *)
(***************************************************************************)
BuildPeers ==
    {<<"192.0.2.1">>,
     <<"192.0.2.1", "->", "prefix", ":", "203.0.113.0/24">>}

BuildPrefixes ==
    {<<"198.51.100.0/24">>,
     <<"203.0.113.0/24", "->", "prefix", ":", "198.51.100.0/24">>}

BuildUpdates ==
    {RipeUpdate(kind, prefix, peer, originAs, 0) :
        kind \in {"announce", "withdraw"},
        prefix \in BuildPrefixes,
        peer \in BuildPeers,
        originAs \in {<<>>, <<64496>>}}

BuildBatches == SeqsUpTo(BuildUpdates, MaxGraphBatch)

BuildGraphInit ==
    /\ SessionIdle
    /\ WindowIdle
    /\ GraphIdle
    /\ AggregatorIdle
    /\ StoreIdle
    /\ ServerIdle
    /\ CollectorIdle
    /\ AppIdle
    /\ LayoutIdle
    /\ buildArgument \in BuildBatches
    /\ payload = <<>>
    /\ rawArgument = <<>>
    /\ extracted = <<>>

\* buildGraph(buildArgument) returns
BuildGraphReturns ==
    /\ payload = <<>>
    /\ payload' = <<buildGraph(buildArgument)>>
    /\ UNCHANGED <<buildArgument, rawArgument, extracted>>
    /\ UNCHANGED <<sessionVars, windowVars, graphVars, aggregatorVars, storeVars, serverVars, collectorVars, appVars, layoutVars>>

SpecBuildGraph ==
    BuildGraphInit /\ [][BuildGraphReturns]_allVars

\* The node and link identities that an update refers to.
ReferencesNode(update, node) ==
    \/ node.type = "peer" /\ node.id = makeNodeKey("peer", update.peer)
    \/ node.type = "prefix" /\ node.id = makeNodeKey("prefix", update.prefix)
    \/ /\ node.type = "origin"
       /\ Len(update.originAs) = 1
       /\ node.id = makeNodeKey("origin", update.originAs)

ReferencesLink(update, link) ==
    /\ update.kind = link.kind
    /\ \/ /\ link.relation = "peer-prefix"
          /\ link.source = makeNodeKey("peer", update.peer)
          /\ link.target = makeNodeKey("prefix", update.prefix)
       \/ /\ link.relation = "origin-prefix"
          /\ Len(update.originAs) = 1
          /\ link.source = makeNodeKey("origin", update.originAs)
          /\ link.target = makeNodeKey("prefix", update.prefix)
       \/ /\ link.relation = "peer-origin"
          /\ Len(update.originAs) = 1
          /\ link.source = makeNodeKey("peer", update.peer)
          /\ link.target = makeNodeKey("origin", update.originAs)

NodeReferences(node) ==
    Cardinality({i \in DOMAIN buildArgument :
                     ReferencesNode(buildArgument[i], node)})

LinkReferences(link) ==
    Cardinality({i \in DOMAIN buildArgument :
                     ReferencesLink(buildArgument[i], link)})

\* C15: occurrence counts.  As claimed: in the payload of every batch each
\* node's count is the number of updates of the batch that refer to its
\* identity, of either kind, and each link's count is the number of updates
\* that refer to its (source, target, relation, kind).
C15_NodeCounts ==
    payload # <<>> =>
        \A i \in DOMAIN payload[1].nodes :
            payload[1].nodes[i].count = NodeReferences(payload[1].nodes[i])

C15_LinkCounts ==
    payload # <<>> =>
        \A i \in DOMAIN payload[1].links :
            payload[1].links[i].count = LinkReferences(payload[1].links[i])

C15_Original ==
    /\ C15_NodeCounts
    /\ C15_LinkCounts

\* The peer-prefix links of the payload from the node of `peer` to the node
\* of `prefix` that have the given kind (their positions).
PeerPrefixLinks(peer, prefix, kind) ==
    {i \in DOMAIN payload[1].links :
        /\ payload[1].links[i].relation = "peer-prefix"
        /\ payload[1].links[i].kind = kind
        /\ payload[1].links[i].source = makeNodeKey("peer", peer)
        /\ payload[1].links[i].target = makeNodeKey("prefix", prefix)}

Holds(kind, peer, prefix) ==
    \E i \in DOMAIN buildArgument :
        /\ buildArgument[i].kind = kind
        /\ buildArgument[i].peer = peer
        /\ buildArgument[i].prefix = prefix

\* C16: link identity includes relation and kind.  As claimed: when the
\* batch holds an announce and a withdraw of one peer and prefix, the
\* payload has exactly one announce and exactly one withdraw peer-prefix
\* link between the two nodes, two entries, each with a count of its own.
C16_Original ==
    payload # <<>> =>
        \A peer \in BuildPeers, prefix \in BuildPrefixes :
            (Holds("announce", peer, prefix) /\ Holds("withdraw", peer, prefix))
                => /\ Cardinality(PeerPrefixLinks(peer, prefix, "announce")) = 1
                   /\ Cardinality(PeerPrefixLinks(peer, prefix, "withdraw")) = 1
                   /\ \A i \in PeerPrefixLinks(peer, prefix, "announce") \cup
                               PeerPrefixLinks(peer, prefix, "withdraw") :
                          payload[1].links[i].count >= 1

Elements(seq) == {seq[i] : i \in DOMAIN seq}

\* C17: a batch of exactly one update.  With a finite numeric originAs the
\* payload has exactly three nodes (peer, prefix, origin labelled "AS" and
\* the number) and exactly three links (peer-prefix, origin-prefix,
\* peer-origin), all of the update's kind and all with count 1; without one
\* it has exactly the peer and prefix nodes and the peer-prefix link.
C17_SingleUpdate ==
    (payload # <<>> /\ Len(buildArgument) = 1) =>
        LET update == buildArgument[1]
            peerId == <<"peer", ":">> \o update.peer
            prefixId == <<"prefix", ":">> \o update.prefix
            originId == <<"origin", ":">> \o update.originAs
            peerNode == [id |-> peerId, label |-> update.peer,
                         type |-> "peer", count |-> 1]
            prefixNode == [id |-> prefixId, label |-> update.prefix,
                           type |-> "prefix", count |-> 1]
            originNode == [id |-> originId, label |-> <<"AS">> \o update.originAs,
                           type |-> "origin", count |-> 1]
            Link(source, target, relation) ==
                [source |-> source, target |-> target, kind |-> update.kind,
                 relation |-> relation, count |-> 1]
        IN  IF Len(update.originAs) = 1
            THEN /\ Len(payload[1].nodes) = 3
                 /\ Elements(payload[1].nodes) = {peerNode, prefixNode, originNode}
                 /\ Len(payload[1].links) = 3
                 /\ Elements(payload[1].links) =
                        {Link(peerId, prefixId, "peer-prefix"),
                         Link(originId, prefixId, "origin-prefix"),
                         Link(peerId, originId, "peer-origin")}
            ELSE /\ Len(payload[1].nodes) = 2
                 /\ Elements(payload[1].nodes) = {peerNode, prefixNode}
                 /\ payload[1].links = <<Link(peerId, prefixId, "peer-prefix")>>

\* buildGraph returned for a single withdraw that carries an origin AS.
C17_Witness ==
    /\ payload # <<>>
    /\ Len(buildArgument) = 1
    /\ buildArgument[1].originAs = <<64496>>
    /\ buildArgument[1].kind = "withdraw"
    /\ Len(payload[1].links) = 3

\* C18: every payload is self-consistent.  The source and the target of
\* every link are ids of nodes of the same payload, no two nodes share an
\* id, and no two links share (source, target, relation, kind).
C18_SelfConsistent ==
    payload # <<>> =>
        LET nodes == payload[1].nodes
            links == payload[1].links
        IN  /\ \A i \in DOMAIN links :
                   /\ \E n \in DOMAIN nodes : nodes[n].id = links[i].source
                   /\ \E n \in DOMAIN nodes : nodes[n].id = links[i].target
            /\ \A i, j \in DOMAIN nodes : nodes[i].id = nodes[j].id => i = j
            /\ \A i, j \in DOMAIN links :
                   (/\ links[i].source = links[j].source
                    /\ links[i].target = links[j].target
                    /\ links[i].relation = links[j].relation
                    /\ links[i].kind = links[j].kind) => i = j

\* buildGraph returned for three updates that share nodes and links: fewer
\* nodes than node references, a link counted twice.
C18_Witness ==
    /\ payload # <<>>
    /\ Len(buildArgument) = 3
    /\ Len(payload[1].nodes) = 3
    /\ Len(payload[1].links) >= 4
    /\ \E i \in DOMAIN payload[1].links : payload[1].links[i].count = 2
    /\ \E i \in DOMAIN payload[1].nodes : payload[1].nodes[i].count = 3

-----------------------------------------------------------------------------
(***************************************************************************)
(* The normalizer extractUpdates of utils/ris.ts.                          *)
(*                                                                         *)
(* A parsed JSON value is a record of what the code reads of it: `tag`, its *)
(* type (typeof, with "null", "array" and "undefined" told apart), and the *)
(* value of each property the code reads, "undefined" where the value has  *)
(* no such property (as `?.` yields for null and for primitives).  A       *)
(* string that the code parses is the sequence of its characters; other    *)
(* strings are sequences of larger pieces.  An optional result (host,      *)
(* peerAsn, originAs, nextHop, asPath) is <<>> when undefined or null,     *)
(* else <<value>>.                                                         *)
(***************************************************************************)
Undefined == [tag |-> "undefined", num |-> 0, str |-> <<>>]

Null == [tag |-> "null", num |-> 0, str |-> <<>>]

Num(n) == [tag |-> "number", num |-> n, str |-> <<>>]

Str(s) == [tag |-> "string", num |-> 0, str |-> s]

\* an array of scalars, or a value that is not an array
Array(items) == [tag |-> "array", items |-> items]

NoArray == [tag |-> "undefined", items |-> <<>>]

Digits == <<"0", "1", "2", "3", "4", "5", "6", "7", "8", "9">>

IsDigit(c) == \E d \in DOMAIN Digits : Digits[d] = c

DigitValue(c) == (CHOOSE d \in DOMAIN Digits : Digits[d] = c) - 1

\* String(n) for an integer n >= 0
RECURSIVE NumberToString(_)
NumberToString(n) ==
    IF n < 10
    THEN <<Digits[n + 1]>>
    ELSE Append(NumberToString(n \div 10), Digits[(n % 10) + 1])

\* the value of the leading digits of chars, after `value` was read of
\* `seen` digits; <<>> (NaN) when there is no leading digit
RECURSIVE LeadingDigits(_, _, _)
LeadingDigits(chars, value, seen) ==
    IF chars # <<>> /\ IsDigit(Head(chars))
    THEN LeadingDigits(Tail(chars), 10 * value + DigitValue(Head(chars)), seen + 1)
    ELSE IF seen = 0 THEN <<>> ELSE <<value>>

RECURSIVE SkipSpaces(_)
SkipSpaces(chars) ==
    IF chars # <<>> /\ Head(chars) = " " THEN SkipSpaces(Tail(chars)) ELSE chars

\* Number.parseInt(chars, 10): <<>> for NaN, else <<the integer>>
parseInt(chars) ==
    LET trimmed == SkipSpaces(chars)
    IN  IF trimmed # <<>> /\ Head(trimmed) = "-"
        THEN LET magnitude == LeadingDigits(Tail(trimmed), 0, 0)
             IN  IF magnitude = <<>> THEN <<>> ELSE <<0 - magnitude[1]>>
        ELSE IF trimmed # <<>> /\ Head(trimmed) = "+"
             THEN LeadingDigits(Tail(trimmed), 0, 0)
             ELSE LeadingDigits(trimmed, 0, 0)

coerceAsn(value) ==
    IF value.tag = "number"
    THEN <<value.num>>
    ELSE IF value.tag = "string" THEN parseInt(value.str) ELSE <<>>

\* Set.prototype.add: insertion order, no duplicates
SetAdd(set, value) ==
    IF \E i \in DOMAIN set : set[i] = value THEN set ELSE Append(set, value)

RECURSIVE AddStrings(_, _)
AddStrings(set, items) ==
    IF items = <<>>
    THEN set
    ELSE AddStrings(IF Head(items).tag = "string"
                    THEN SetAdd(set, Head(items).str)
                    ELSE set,
                    Tail(items))

normalizePrefixes_IgnoresList(entry) ==
    IF entry.prefix.tag = "string" THEN <<entry.prefix.str>> ELSE <<>>

normalizePrefixes(entry) ==
    LET first == IF entry.prefix.tag = "string"
                 THEN <<entry.prefix.str>>
                 ELSE <<>>
    IN  IF entry.prefixes.tag = "array"
        THEN AddStrings(first, entry.prefixes.items)
        ELSE first

\* A member of an as_path array: a number, a string, a nested array of
\* scalars, or null.
PathNum(n) == [tag |-> "number", num |-> n, str |-> <<>>, items |-> <<>>]

PathStr(s) == [tag |-> "string", num |-> 0, str |-> s, items |-> <<>>]

PathArray(items) == [tag |-> "array", num |-> 0, str |-> <<>>, items |-> items]

PathNull == [tag |-> "null", num |-> 0, str |-> <<>>, items |-> <<>>]

\* The as_path property: an array of members, an object whose `value` is an
\* array of members, or undefined.
FlatPath(members) ==
    [tag |-> "array", items |-> members,
     value |-> [tag |-> "undefined", items |-> <<>>]]

ValuePath(members) ==
    [tag |-> "object", items |-> <<>>,
     value |-> [tag |-> "array", items |-> members]]

NoPath ==
    [tag |-> "undefined", items |-> <<>>,
     value |-> [tag |-> "undefined", items |-> <<>>]]

\* String(n) for any integer n
IntegerToString(n) ==
    IF n < 0 THEN <<"-">> \o NumberToString(0 - n) ELSE NumberToString(n)

\* Array.prototype.join(separator) of strings
RECURSIVE Join(_, _)
Join(parts, separator) ==
    IF parts = <<>>
    THEN <<>>
    ELSE IF Len(parts) = 1
         THEN parts[1]
         ELSE parts[1] \o separator \o Join(Tail(parts), separator)

\* lines 48-50: String(part) of the numbers and strings, the empty ones
\* and every other member filtered out
RECURSIVE PathParts(_)
PathParts(members) ==
    IF members = <<>>
    THEN <<>>
    ELSE LET part == Head(members)
             text == IF part.tag = "number"
                     THEN IntegerToString(part.num)
                     ELSE IF part.tag = "string" THEN part.str ELSE <<>>
         IN  IF text = <<>>
             THEN PathParts(Tail(members))
             ELSE <<text>> \o PathParts(Tail(members))

normalizeAsPath(entry) ==
    LET values == IF entry.as_path.tag = "array"
                  THEN entry.as_path.items
                  ELSE entry.as_path.value.items
        isArray == \/ entry.as_path.tag = "array"
                   \/ entry.as_path.value.tag = "array"
        parts == PathParts(values)
    IN  IF ~isArray \/ parts = <<>> THEN <<>> ELSE <<Join(parts, <<" ">>)>>

\* String(element) of an element of a nested array: "" for null
ElementText(element) ==
    IF element.tag = "number"
    THEN IntegerToString(element.num)
    ELSE IF element.tag = "string" THEN element.str ELSE <<>>

\* String(last ?? "") of line 58
MemberText(member) ==
    IF member.tag = "string"
    THEN member.str
    ELSE IF member.tag = "array"
         THEN Join([i \in DOMAIN member.items |-> ElementText(member.items[i])],
                   <<",">>)
         ELSE <<>>

inferOriginAs(entry) ==
    IF entry.origin.tag = "number"
    THEN <<entry.origin.num>>
    ELSE LET path == IF entry.as_path.tag = "array"
                     THEN entry.as_path.items
                     ELSE <<>>
         IN  IF path = <<>>
             THEN <<>>
             ELSE LET last == path[Len(path)]
                  IN  IF last.tag = "number"
                      THEN <<last.num>>
                      ELSE parseInt(MemberText(last))

\* !value
Falsy(value) ==
    \/ value.tag \in {"undefined", "null"}
    \/ value.tag = "number" /\ value.num = 0
    \/ value.tag = "string" /\ value.str = <<>>

\* the object pushed at lines 93-104 and 117-126: a RipeUpdate with all its
\* properties
ExtractedUpdate(kind, timestamp, receivedAt, prefix, peer, host, peerAsn, originAs, nextHop, asPath) ==
    [kind |-> kind, timestamp |-> timestamp, receivedAt |-> receivedAt,
     prefix |-> prefix, peer |-> peer, host |-> host, peerAsn |-> peerAsn,
     originAs |-> originAs, nextHop |-> nextHop, asPath |-> asPath]

\* Date.now() at lines 77 and 78
DateNow == 1716660001

\* lines 76-82: what is read of message.data once
Envelope(data) ==
    [baseTimestamp |-> IF data.timestamp.tag = "number" /\ data.timestamp.num # 0
                       THEN data.timestamp.num * 1000
                       ELSE DateNow,
     receivedAt |-> DateNow,
     peer |-> IF data.peer.tag = "string" THEN data.peer.str ELSE <<"unknown">>,
     host |-> IF data.host.tag = "string" THEN <<data.host.str>> ELSE <<>>,
     peerAsn |-> coerceAsn(data.peer_asn),
     originAsData |-> coerceAsn(data.origin_asn)]

\* lines 88-105: the updates pushed for one announcement
announcementUpdates(announcement, envelope) ==
    LET prefixes == normalizePrefixes(announcement)
        nextHop == IF announcement.next_hop.tag = "string"
                   THEN <<announcement.next_hop.str>>
                   ELSE <<>>
        asPath == normalizeAsPath(announcement)
        inferred == inferOriginAs(announcement)
        originAs == IF inferred # <<>> THEN inferred ELSE envelope.originAsData
    IN  [i \in DOMAIN prefixes |->
            ExtractedUpdate("announce", envelope.baseTimestamp,
                            envelope.receivedAt, prefixes[i], envelope.peer,
                            envelope.host, envelope.peerAsn, originAs, nextHop,
                            asPath)]

RECURSIVE announcementsLoop(_, _)
announcementsLoop(announcements, envelope) ==
    IF announcements = <<>>
    THEN <<>>
    ELSE announcementUpdates(Head(announcements), envelope)
             \o announcementsLoop(Tail(announcements), envelope)

RECURSIVE withdrawalsLoop_StopsAtGap(_, _)
withdrawalsLoop_StopsAtGap(withdrawals, envelope) ==
    IF withdrawals = <<>>
    THEN <<>>
    ELSE LET entry == Head(withdrawals)
             prefix == IF entry.tag = "string"
                       THEN entry.str
                       ELSE IF entry.prefix.tag = "string"
                            THEN entry.prefix.str
                            ELSE <<>>
         IN  IF prefix = <<>>
             THEN <<>>
             ELSE <<ExtractedUpdate("withdraw", envelope.baseTimestamp,
                                    envelope.receivedAt, prefix, envelope.peer,
                                    envelope.host, envelope.peerAsn,
                                    envelope.originAsData, <<>>, <<>>)>>
                      \o withdrawalsLoop_StopsAtGap(Tail(withdrawals), envelope)

\* lines 109-127: the updates pushed for the withdrawals
RECURSIVE withdrawalsLoop(_, _)
withdrawalsLoop(withdrawals, envelope) ==
    IF withdrawals = <<>>
    THEN <<>>
    ELSE LET entry == Head(withdrawals)
             prefix == IF entry.tag = "string"
                       THEN entry.str
                       ELSE IF entry.prefix.tag = "string"
                            THEN entry.prefix.str
                            ELSE <<>>
             rest == withdrawalsLoop(Tail(withdrawals), envelope)
         IN  IF prefix = <<>>
             THEN rest
             ELSE <<ExtractedUpdate("withdraw", envelope.baseTimestamp,
                                    envelope.receivedAt, prefix, envelope.peer,
                                    envelope.host, envelope.peerAsn,
                                    envelope.originAsData, <<>>, <<>>)>>
                      \o rest

extractUpdates_AnyType(message) ==
    IF Falsy(message) \/ message.tag \notin {"object", "array"}
    THEN <<>>
    ELSE IF Falsy(message.data)
         THEN <<>>
         ELSE LET data == message.data
                  envelope == Envelope(data)
                  announcements == IF data.announcements.tag = "array"
                                   THEN data.announcements.items
                                   ELSE <<>>
                  withdrawals == IF data.withdrawals.tag = "array"
                                 THEN data.withdrawals.items
                                 ELSE <<>>
              IN  announcementsLoop(announcements, envelope)
                      \o withdrawalsLoop(withdrawals, envelope)

extractUpdates(message) ==
    IF Falsy(message) \/ message.tag \notin {"object", "array"}
    THEN <<>>
    ELSE IF ~(message.type.tag = "string" /\ message.type.str = <<"ris_message">>)
            \/ Falsy(message.data)
         THEN <<>>
         ELSE LET data == message.data
                  envelope == Envelope(data)
                  announcements == IF data.announcements.tag = "array"
                                   THEN data.announcements.items
                                   ELSE <<>>
                  withdrawals == IF data.withdrawals.tag = "array"
                                 THEN data.withdrawals.items
                                 ELSE <<>>
              IN  announcementsLoop(announcements, envelope)
                      \o withdrawalsLoop(withdrawals, envelope)

-----------------------------------------------------------------------------
(***************************************************************************)
(* extractUpdates taken alone, called once on any parsed frame of          *)
(* RawFrames.                                                              *)
(***************************************************************************)
Chars64500 == <<"6", "4", "5", "0", "0">>

Chars65000 == <<"6", "5", "0", "0", "0">>

Chars64497 == <<"6", "4", "4", "9", "7">>

\* The properties of message.data other than the two lists.
MessageAttributes ==
    {[timestamp |-> Num(1716660), peer |-> Str(<<"192.0.2.1">>),
      host |-> Str(<<"rrc00">>), peer_asn |-> Str(Chars65000),
      origin_asn |-> Num(64500)],
     [timestamp |-> Undefined, peer |-> Undefined, host |-> Undefined,
      peer_asn |-> Undefined, origin_asn |-> Undefined],
     [timestamp |-> Num(0), peer |-> Str(<<"192.0.2.1">>), host |-> Null,
      peer_asn |-> Num(65000), origin_asn |-> Str(Chars64500)]}

\* The attribute set of an announcement: next_hop, as_path, origin.
AnnouncementAttributes ==
    {[next_hop |-> Str(<<"192.0.2.254">>),
      as_path |-> FlatPath(<<PathNum(65000), PathNum(64496)>>),
      origin |-> Undefined],
     [next_hop |-> Undefined, as_path |-> NoPath, origin |-> Undefined],
     [next_hop |-> Undefined,
      as_path |-> ValuePath(<<PathStr(Chars64497)>>),
      origin |-> Num(64499)],
     [next_hop |-> Str(<<"192.0.2.254">>),
      as_path |-> FlatPath(<<PathNum(65000),
                             PathArray(<<Num(65001), Num(65002)>>)>>),
      origin |-> Undefined],
     [next_hop |-> Undefined,
      as_path |-> FlatPath(<<PathNum(65000), PathNum(64496)>>),
      origin |-> Num(64511)]}

\* The members of a `prefixes` array: two prefixes and a number.
PrefixItems ==
    {Str(<<"203.0.113.0/24">>), Str(<<"198.51.100.0/24">>), Num(7)}

PrefixLists ==
    {NoArray} \cup {Array(items) : items \in SeqsUpTo(PrefixItems, MaxPrefixes)}

\* An entry of data.announcements: an object, null or a string.
AnnouncementObject(prefix, prefixes, attributes) ==
    [tag |-> "object", prefix |-> prefix, prefixes |-> prefixes,
     next_hop |-> attributes.next_hop, as_path |-> attributes.as_path,
     origin |-> attributes.origin]

NotAnObject(tag) ==
    [tag |-> tag, prefix |-> Undefined, prefixes |-> NoArray,
     next_hop |-> Undefined, as_path |-> NoPath, origin |-> Undefined]

AnnouncementEntries ==
    {AnnouncementObject(prefix, prefixes, attributes) :
        prefix \in {Undefined, Str(<<"203.0.113.0/24">>), Str(<<>>)},
        prefixes \in PrefixLists,
        attributes \in AnnouncementAttributes}
    \cup {NotAnObject("null"), NotAnObject("string")}

\* a second announcement of a frame, with an attribute set of its own
SecondAnnouncement ==
    AnnouncementObject(Str(<<"2001:db8::/32">>), NoArray,
                       [next_hop |-> Undefined,
                        as_path |-> FlatPath(<<PathNum(64511)>>),
                        origin |-> Undefined])

AnnouncementLists ==
    {NoArray, Array(<<>>)}
    \cup {Array(<<entry>>) : entry \in AnnouncementEntries}
    \cup {Array(<<entry, SecondAnnouncement>>) : entry \in AnnouncementEntries}

\* An entry of data.withdrawals: a string, an object or null.
WithdrawalEntries ==
    {[tag |-> "string", str |-> <<"203.0.113.0/24">>, prefix |-> Undefined],
     [tag |-> "string", str |-> <<>>, prefix |-> Undefined],
     [tag |-> "object", str |-> <<>>, prefix |-> Str(<<"198.51.100.0/24">>)],
     [tag |-> "object", str |-> <<>>, prefix |-> Undefined],
     [tag |-> "null", str |-> <<>>, prefix |-> Undefined]}

\* a frame that withdraws two prefixes, one as a string and one as an object
TwoWithdrawals ==
    Array(<<[tag |-> "string", str |-> <<"203.0.113.0/24">>,
             prefix |-> Undefined],
            [tag |-> "object", str |-> <<>>,
             prefix |-> Str(<<"198.51.100.0/24">>)]>>)

\* a frame whose second withdrawal entry, null, has no prefix
WithdrawalsWithGap ==
    Array(<<[tag |-> "string", str |-> <<"203.0.113.0/24">>,
             prefix |-> Undefined],
            [tag |-> "null", str |-> <<>>, prefix |-> Undefined],
            [tag |-> "object", str |-> <<>>,
             prefix |-> Str(<<"198.51.100.0/24">>)]>>)

WithdrawalLists ==
    {NoArray, TwoWithdrawals, WithdrawalsWithGap}
    \cup {Array(items) : items \in SeqsUpTo(WithdrawalEntries, MaxWithdrawals)}

\* message.data: an object, or a value without properties
DataObject(attributes, announcements, withdrawals) ==
    [tag |-> "object", num |-> 0, str |-> <<>>,
     timestamp |-> attributes.timestamp, peer |-> attributes.peer,
     host |-> attributes.host, peer_asn |-> attributes.peer_asn,
     origin_asn |-> attributes.origin_asn,
     announcements |-> announcements, withdrawals |-> withdrawals]

DataScalar(value) ==
    [tag |-> value.tag, num |-> value.num, str |-> value.str,
     timestamp |-> Undefined, peer |-> Undefined, host |-> Undefined,
     peer_asn |-> Undefined, origin_asn |-> Undefined,
     announcements |-> NoArray, withdrawals |-> NoArray]

DataObjects ==
    {DataObject(attributes, announcements, withdrawals) :
        attributes \in MessageAttributes,
        announcements \in AnnouncementLists,
        withdrawals \in WithdrawalLists}

\* data objects that carry an announcement and a withdrawal
SampleData ==
    {DataObject(attributes,
                Array(<<AnnouncementObject(Str(<<"203.0.113.0/24">>), NoArray,
                                           announced)>>),
                Array(<<[tag |-> "string", str |-> <<"198.51.100.0/24">>,
                         prefix |-> Undefined]>>)) :
        attributes \in MessageAttributes,
        announced \in AnnouncementAttributes}

NoDataObject ==
    {DataScalar(Undefined), DataScalar(Null), DataScalar(Num(0)),
     DataScalar(Num(7)), DataScalar(Str(<<>>)), DataScalar(Str(<<"x">>))}

\* the parsed frame: a value with its properties `type` and `data`
RawValue(value, type, data) ==
    [tag |-> value.tag, num |-> value.num, str |-> value.str,
     type |-> type, data |-> data]

RawObject(type, data) ==
    [tag |-> "object", num |-> 0, str |-> <<>>, type |-> type, data |-> data]

RisMessages ==
    {RawObject(Str(<<"ris_message">>), data) : data \in DataObjects}

NotRecognized ==
    {RawValue(value, Undefined, DataScalar(Undefined)) :
        value \in {Null, Undefined, Num(0), Num(7), Str(<<>>),
                   Str(<<"ris_message">>)}}
    \cup {[tag |-> "array", num |-> 0, str |-> <<>>, type |-> Undefined,
           data |-> DataScalar(Undefined)]}
    \cup {RawObject(type, data) :
             type \in {Undefined, Null, Num(1), Str(<<"ping">>),
                       Str(<<"ris_error">>), Str(<<"RIS_MESSAGE">>)},
             data \in SampleData \cup NoDataObject}
    \cup {RawObject(Str(<<"ris_message">>), data) : data \in NoDataObject}

RawFrames == RisMessages \cup NotRecognized

ExtractUpdatesInit ==
    /\ SessionIdle
    /\ WindowIdle
    /\ GraphIdle
    /\ AggregatorIdle
    /\ StoreIdle
    /\ ServerIdle
    /\ CollectorIdle
    /\ AppIdle
    /\ LayoutIdle
    /\ buildArgument = <<>>
    /\ payload = <<>>
    /\ rawArgument \in RawFrames
    /\ extracted = <<>>

\* extractUpdates(rawArgument) returns
ExtractUpdatesReturns ==
    /\ extracted = <<>>
    /\ extracted' = <<extractUpdates(rawArgument)>>
    /\ UNCHANGED <<buildArgument, payload, rawArgument>>
    /\ UNCHANGED <<sessionVars, windowVars, graphVars, aggregatorVars, storeVars, serverVars, collectorVars, appVars, layoutVars>>

SpecExtractUpdates ==
    ExtractUpdatesInit /\ [][ExtractUpdatesReturns]_allVars

\* The frame is a data envelope: an object of type "ris_message" whose data
\* is an object.
DataEnvelope(frame) ==
    /\ frame.tag = "object"
    /\ frame.type = Str(<<"ris_message">>)
    /\ frame.data.tag = "object"

\* The prefixes an entry of `announcements` carries: the strings of its
\* `prefix` and of its `prefixes`.
PrefixesCarried(entry) ==
    IF entry.tag # "object"
    THEN {}
    ELSE (IF entry.prefix.tag = "string" THEN {entry.prefix.str} ELSE {})
         \cup (IF entry.prefixes.tag = "array"
               THEN {entry.prefixes.items[i].str :
                        i \in {j \in DOMAIN entry.prefixes.items :
                                  entry.prefixes.items[j].tag = "string"}}
               ELSE {})

Announced(list) ==
    SelectSeq(list, LAMBDA update : update.kind = "announce")

\* the frame is a data envelope with exactly one announcement
OneAnnouncement(frame) ==
    /\ DataEnvelope(frame)
    /\ frame.data.announcements.tag = "array"
    /\ Len(frame.data.announcements.items) = 1

\* C19: a recognized frame whose announcement carries k prefixes yields
\* exactly k announce updates, one per prefix, all with the same asPath,
\* nextHop, originAs, peer and host.  The k prefixes are the distinct strings
\* of the announcement's `prefix` and `prefixes`.
C19_OnePerPrefix ==
    (extracted # <<>> /\ OneAnnouncement(rawArgument)) =>
        LET carried == PrefixesCarried(rawArgument.data.announcements.items[1])
            announces == Announced(extracted[1])
        IN  /\ Len(announces) = Cardinality(carried)
            /\ {announces[i].prefix : i \in DOMAIN announces} = carried
            /\ \A i, j \in DOMAIN announces :
                  /\ announces[i].asPath = announces[j].asPath
                  /\ announces[i].nextHop = announces[j].nextHop
                  /\ announces[i].originAs = announces[j].originAs
                  /\ announces[i].peer = announces[j].peer
                  /\ announces[i].host = announces[j].host

\* an announcement of three prefixes, one of them listed twice, with an
\* AS path and a next hop, was normalized into three announce updates
C19_Witness ==
    /\ extracted # <<>>
    /\ OneAnnouncement(rawArgument)
    /\ rawArgument.data.announcements.items[1].tag = "object"
    /\ rawArgument.data.announcements.items[1].prefix = Str(<<"203.0.113.0/24">>)
    /\ rawArgument.data.announcements.items[1].prefixes
           = Array(<<Str(<<"198.51.100.0/24">>), Str(<<"203.0.113.0/24">>)>>)
    /\ Len(Announced(extracted[1])) = 2
    /\ Announced(extracted[1])[1].asPath # <<>>
    /\ Announced(extracted[1])[2].nextHop # <<>>

\* C20: a raw input that is not a recognized data envelope (null, a
\* non-object, an object of another type, an envelope without a data object)
\* is normalized into the empty sequence; the call returns.
C20_NotRecognized ==
    (extracted # <<>> /\ ~DataEnvelope(rawArgument)) => extracted = <<<<>>>>

\* a "ping" object that carries an announcement was normalized into nothing
C20_Witness ==
    /\ extracted = <<<<>>>>
    /\ rawArgument.tag = "object"
    /\ rawArgument.type = Str(<<"ping">>)
    /\ rawArgument.data.tag = "object"
    /\ rawArgument.data.announcements.tag = "array"
    /\ rawArgument.data.announcements.items # <<>>

\* The members of the announcement's path attribute: as_path when it is an
\* array, else as_path.value when that is an array.
PathAttribute(entry) ==
    IF entry.as_path.tag = "array"
    THEN entry.as_path.items
    ELSE IF entry.as_path.value.tag = "array"
         THEN entry.as_path.value.items
         ELSE <<>>

\* an integer member: a number, or a string of digits
IntegerText(member) ==
    IF member.tag = "number"
    THEN <<IntegerToString(member.num)>>
    ELSE IF /\ member.tag = "string"
            /\ member.str # <<>>
            /\ \A i \in DOMAIN member.str : IsDigit(member.str[i])
         THEN <<member.str>>
         ELSE <<>>

RECURSIVE IntegerTexts(_)
IntegerTexts(members) ==
    IF members = <<>>
    THEN <<>>
    ELSE IntegerText(Head(members)) \o IntegerTexts(Tail(members))

\* the path flattened into one sequence of integers: the members of a nested
\* segment in its place, every member that is not an integer discarded
RECURSIVE Flattened(_)
Flattened(members) ==
    IF members = <<>>
    THEN <<>>
    ELSE (IF Head(members).tag = "array"
          THEN IntegerTexts(Head(members).items)
          ELSE IntegerText(Head(members)))
         \o Flattened(Tail(members))

\* the only announcement of the frame, which is an object
TheAnnouncement == rawArgument.data.announcements.items[1]

AnnouncementNormalized ==
    /\ extracted # <<>>
    /\ OneAnnouncement(rawArgument)
    /\ TheAnnouncement.tag = "object"

\* C21: the asPath of an announce update is the path attribute flattened
\* into one sequence (nested segments expanded in place, non-integer members
\* discarded) and joined by single spaces.
C21_Original ==
    AnnouncementNormalized =>
        \A i \in DOMAIN Announced(extracted[1]) :
            LET flat == Flattened(PathAttribute(TheAnnouncement))
            IN  Announced(extracted[1])[i].asPath
                    = IF flat = <<>> THEN <<>> ELSE <<Join(flat, <<" ">>)>>

\* C21, second half: a path that is already a flat sequence of integers is
\* stored as exactly that sequence.
C21_FlatIntegers ==
    (/\ AnnouncementNormalized
     /\ \A m \in DOMAIN PathAttribute(TheAnnouncement) :
           PathAttribute(TheAnnouncement)[m].tag = "number") =>
        \A i \in DOMAIN Announced(extracted[1]) :
            LET members == PathAttribute(TheAnnouncement)
                texts == [m \in DOMAIN members |-> IntegerToString(members[m].num)]
            IN  Announced(extracted[1])[i].asPath
                    = IF texts = <<>> THEN <<>> ELSE <<Join(texts, <<" ">>)>>

\* the origin an announcement is specified to get: the last integer of its
\* flattened path, else the origin of the announcement, else the origin of
\* the message, else none
SpecifiedOrigin(entry, data) ==
    LET flat == Flattened(PathAttribute(entry))
    IN  IF flat # <<>>
        THEN parseInt(flat[Len(flat)])
        ELSE IF entry.origin.tag = "number"
             THEN <<entry.origin.num>>
             ELSE coerceAsn(data.origin_asn)

\* C22: originAs of an announce update is the last integer of the flattened
\* AS path when the path is not empty; an explicit origin (of the
\* announcement, else of the message) is used only when the path is empty,
\* and originAs is null when there is neither.
C22_Original ==
    AnnouncementNormalized =>
        \A i \in DOMAIN Announced(extracted[1]) :
            Announced(extracted[1])[i].originAs
                = SpecifiedOrigin(TheAnnouncement, rawArgument.data)

\* the prefix a withdrawal entry resolves to: the entry when it is a string,
\* its `prefix` when it is an object with a string prefix; none when that
\* string is empty or there is no such string
ResolvedPrefix(entry) ==
    IF entry.tag = "string"
    THEN (IF entry.str = <<>> THEN <<>> ELSE <<entry.str>>)
    ELSE IF entry.tag = "object" /\ entry.prefix.tag = "string"
         THEN (IF entry.prefix.str = <<>> THEN <<>> ELSE <<entry.prefix.str>>)
         ELSE <<>>

RECURSIVE ResolvedPrefixes(_)
ResolvedPrefixes(entries) ==
    IF entries = <<>>
    THEN <<>>
    ELSE ResolvedPrefix(Head(entries)) \o ResolvedPrefixes(Tail(entries))

Withdrawn(list) ==
    SelectSeq(list, LAMBDA update : update.kind = "withdraw")

\* C23: a recognized frame yields one withdraw update per withdrawal entry
\* with a resolvable prefix (a non-empty string, bare or in `prefix`), for
\* that prefix, without asPath or nextHop, in the order of the entries and
\* after all announce updates; the other entries yield nothing.
C23_Withdrawals ==
    (extracted # <<>> /\ DataEnvelope(rawArgument)) =>
        LET entries == IF rawArgument.data.withdrawals.tag = "array"
                       THEN rawArgument.data.withdrawals.items
                       ELSE <<>>
            withdrawn == Withdrawn(extracted[1])
        IN  /\ [i \in DOMAIN withdrawn |-> withdrawn[i].prefix]
                   = ResolvedPrefixes(entries)
            /\ \A i \in DOMAIN withdrawn :
                  withdrawn[i].asPath = <<>> /\ withdrawn[i].nextHop = <<>>
            /\ extracted[1] = Announced(extracted[1]) \o withdrawn

\* a frame with an announcement and the withdrawals (prefix, null, object
\* with a prefix) was normalized into its announce updates followed by two
\* withdraw updates
C23_Witness ==
    /\ extracted # <<>>
    /\ DataEnvelope(rawArgument)
    /\ rawArgument.data.withdrawals = WithdrawalsWithGap
    /\ Announced(extracted[1]) # <<>>
    /\ Len(Withdrawn(extracted[1])) = 2
    /\ extracted[1][Len(extracted[1])].prefix = <<"198.51.100.0/24">>

\* C24: every update the normalizer emits, announce or withdraw, has a
\* non-empty prefix, for every raw frame.
C24_Original ==
    extracted # <<>> =>
        \A i \in DOMAIN extracted[1] : extracted[1][i].prefix # <<>>

\* C24 for the withdraw updates alone, which line 116 guards
C24_WithdrawPrefixes ==
    extracted # <<>> =>
        \A i \in DOMAIN Withdrawn(extracted[1]) :
            Withdrawn(extracted[1])[i].prefix # <<>>

-----------------------------------------------------------------------------
(***************************************************************************)
(* The durable window: the IndexedDB store of indexedDb.ts and the hook    *)
(* of hooks/useRipeRis.ts that appends to it, reloads from it and clears   *)
(* it.  A transaction runs its requests one event at a time; a read-only   *)
(* transaction starts once every read-write transaction created before it  *)
(* is complete, a read-write transaction once every transaction created    *)
(* before it is complete (all transactions have the same scope, the        *)
(* `updates` store).                                                       *)
(***************************************************************************)
\* a stored record: its generated key, its timestamp, and the number of
\* clear operations requested before it was received
Record(id, timestamp, epoch) ==
    [id |-> id, timestamp |-> timestamp, epoch |-> epoch]

\* `a` comes before `b` in the timestamp index read backwards ("prev"):
\* greater timestamp first, then greater key
Before(a, b) ==
    \/ a.timestamp > b.timestamp
    \/ a.timestamp = b.timestamp /\ a.id > b.id

cursorRecord_Next(store, position) ==
    LET after == {store[i] : i \in {j \in DOMAIN store :
                      position = <<>> \/ Before(store[j], position[1])}}
    IN  IF after = {}
        THEN <<>>
        ELSE <<CHOOSE r \in after : \A q \in after \ {r} : Before(q, r)>>

\* index.openCursor(null, "prev") and cursor.continue(): the record the
\* cursor comes to rest on after `position` (<<>> when it is opened), <<>>
\* when there is none
cursorRecord(store, position) ==
    LET after == {store[i] : i \in {j \in DOMAIN store :
                      position = <<>> \/ Before(position[1], store[j])}}
    IN  IF after = {}
        THEN <<>>
        ELSE <<CHOOSE r \in after : \A q \in after \ {r} : Before(r, q)>>

\* the transactions of addUpdates, getRecentUpdates and clearUpdates, each
\* with the request it waits for ("none": it waits for its completion)
AddTransaction(todo) ==
    [kind |-> "add", request |-> "add", todo |-> todo, limit |-> 0,
     results |-> <<>>, position |-> <<>>]

ReadTransaction(count) ==
    [kind |-> "read", request |-> "openCursor", todo |-> <<>>, limit |-> count,
     results |-> <<>>, position |-> <<>>]

ClearTransaction ==
    [kind |-> "clear", request |-> "clear", todo |-> <<>>, limit |-> 0,
     results |-> <<>>, position |-> <<>>]

\* the transaction may run its requests and complete
CanStart(i) ==
    IF transactions[i].kind = "read"
    THEN \A j \in 1..(i - 1) : transactions[j].kind = "read"
    ELSE i = 1

\* lines 46-49 once the cursor request has given `cursor`
whileCursor(tx, cursor) ==
    IF cursor # <<>> /\ Len(tx.results) < tx.limit
    THEN [tx EXCEPT !.results = Append(@, cursor[1]),
                    !.position = cursor,
                    !.request = "continue"]
    ELSE [tx EXCEPT !.request = "none"]

\* lines 118-120 of the hook: the window after clearUpdates resolved
clearedWindow_Keeps(window, alive) == window

clearedWindow(window, alive) == IF alive THEN <<>> ELSE window

\* what the store holds when the hook mounts: nothing, one record, two
\* records of which the first is the later one, two of the same timestamp
StoredAtMount ==
    {<<>>,
     <<Record(1, 2, 0)>>,
     <<Record(1, 2, 0), Record(2, 1, 0)>>,
     <<Record(1, 1, 0), Record(2, 1, 0)>>}

\* the records received, of the transactions not complete included
Received ==
    (nextId - 1)
    + Len(SelectSeq(transactions, LAMBDA tx : Len(tx.todo) > 0))
    + Len(SelectSeq(transactions, LAMBDA tx : Len(tx.todo) > 1))

StoreInit ==
    /\ SessionIdle
    /\ WindowIdle
    /\ GraphIdle
    /\ AggregatorIdle
    /\ FunctionsIdle
    /\ ServerIdle
    /\ CollectorIdle
    /\ AppIdle
    /\ LayoutIdle
    /\ records \in StoredAtMount
    /\ nextId = Len(records) + 1
    /\ readLimit \in 0..MaxRead
    /\ transactions = <<ReadTransaction(readLimit)>>
    /\ updatesState = <<>>
    /\ storeMounted = TRUE
    /\ clearsRequested = 0
    /\ clearsCompleted = 0
    /\ committed = records
    /\ lastRead = NoRead
    /\ pendingAtClear = {}

StoreFrame ==
    UNCHANGED <<sessionVars, windowVars, graphVars, aggregatorVars, functionVars,
                serverVars, collectorVars, appVars, layoutVars>>

\* handleParseMessage, case "updates", with one or two updates
HandleParseUpdates ==
    \E stamps \in {<<1>>, <<2>>, <<2, 1>>} :
        /\ storeMounted
        /\ Received + Len(stamps) <= MaxRecords
        /\ transactions' = Append(transactions,
               AddTransaction([i \in DOMAIN stamps |->
                                  [timestamp |-> stamps[i],
                                   epoch |-> clearsRequested]]))
        /\ UNCHANGED <<records, nextId, updatesState, storeMounted, readLimit,
                       clearsRequested, clearsCompleted, committed,
                       pendingAtClear>>
        /\ lastRead' = NoRead
        /\ StoreFrame

\* tx.store.add(update) succeeds: the record is stored under the next key
AddSucceeds ==
    \E i \in DOMAIN transactions :
        /\ CanStart(i)
        /\ transactions[i].request = "add"
        /\ LET tx == transactions[i]
               update == Head(tx.todo)
           IN  /\ records' = Append(records,
                       Record(nextId, update.timestamp, update.epoch))
               /\ nextId' = nextId + 1
               /\ transactions' =
                      [transactions EXCEPT ![i] =
                          [tx EXCEPT !.todo = Tail(tx.todo),
                                     !.request = IF Len(tx.todo) = 1
                                                 THEN "none"
                                                 ELSE "add"]]
        /\ UNCHANGED <<updatesState, storeMounted, readLimit, clearsRequested,
                       clearsCompleted, committed,
                       pendingAtClear>>
        /\ lastRead' = NoRead
        /\ StoreFrame

\* the transaction of addUpdates completes; .then(loadLatest) reads
AddCompletes ==
    \E i \in DOMAIN transactions :
        /\ CanStart(i)
        /\ transactions[i].kind = "add"
        /\ transactions[i].request = "none"
        /\ transactions' = Append(Without(transactions, i), ReadTransaction(readLimit))
        /\ committed' = records
        /\ UNCHANGED <<records, nextId, updatesState, storeMounted, readLimit,
                       clearsRequested, clearsCompleted,
                       pendingAtClear>>
        /\ lastRead' = NoRead
        /\ StoreFrame

\* openCursor or continue succeeds
CursorSucceeds ==
    \E i \in DOMAIN transactions :
        /\ CanStart(i)
        /\ transactions[i].request \in {"openCursor", "continue"}
        /\ transactions' =
               [transactions EXCEPT ![i] =
                   whileCursor(@, cursorRecord(records, @.position))]
        /\ UNCHANGED <<records, nextId, updatesState, storeMounted, readLimit,
                       clearsRequested, clearsCompleted, committed,
                       pendingAtClear>>
        /\ lastRead' = NoRead
        /\ StoreFrame

\* the transaction of getRecentUpdates completes; loadLatest sets the window
ReadCompletes ==
    \E i \in DOMAIN transactions :
        /\ CanStart(i)
        /\ transactions[i].kind = "read"
        /\ transactions[i].request = "none"
        /\ transactions' = Without(transactions, i)
        /\ lastRead' = [returned |-> TRUE,
                        limit |-> transactions[i].limit,
                        results |-> transactions[i].results,
                        overlapped |-> \E j \in DOMAIN transactions :
                                           transactions[j].kind = "add"]
        /\ updatesState' = IF storeMounted
                           THEN transactions[i].results
                           ELSE updatesState
        /\ UNCHANGED <<records, nextId, storeMounted, readLimit,
                       clearsRequested, clearsCompleted, committed,
                       pendingAtClear>>
        /\ StoreFrame

\* clearHistory is called: clearUpdates opens its transaction
ClearRequested ==
    /\ storeMounted
    /\ clearsRequested < MaxClears
    /\ clearsRequested' = clearsRequested + 1
    /\ transactions' = Append(transactions, ClearTransaction)
    /\ pendingAtClear' = {transactions[i].kind : i \in DOMAIN transactions}
    /\ UNCHANGED <<records, nextId, updatesState, storeMounted, readLimit,
                   clearsCompleted, committed>>
    /\ lastRead' = NoRead
    /\ StoreFrame

\* tx.store.clear() succeeds
ClearSucceeds ==
    \E i \in DOMAIN transactions :
        /\ CanStart(i)
        /\ transactions[i].request = "clear"
        /\ records' = <<>>
        /\ transactions' = [transactions EXCEPT ![i].request = "none"]
        /\ UNCHANGED <<nextId, updatesState, storeMounted, readLimit,
                       clearsRequested, clearsCompleted, committed,
                       pendingAtClear>>
        /\ lastRead' = NoRead
        /\ StoreFrame

\* the transaction of clearUpdates completes; clearHistory empties the window
ClearCompletes ==
    \E i \in DOMAIN transactions :
        /\ CanStart(i)
        /\ transactions[i].kind = "clear"
        /\ transactions[i].request = "none"
        /\ transactions' = Without(transactions, i)
        /\ committed' = records
        /\ clearsCompleted' = clearsCompleted + 1
        /\ updatesState' = clearedWindow(updatesState, storeMounted)
        /\ UNCHANGED <<records, nextId, storeMounted, readLimit,
                       clearsRequested,
                       pendingAtClear>>
        /\ lastRead' = NoRead
        /\ StoreFrame

\* the cleanup of the worker effect
StoreUnmount ==
    /\ storeMounted
    /\ storeMounted' = FALSE
    /\ UNCHANGED <<records, nextId, transactions, updatesState, readLimit,
                   clearsRequested, clearsCompleted, committed,
                   pendingAtClear>>
    /\ lastRead' = NoRead
    /\ StoreFrame

StoreNext ==
    \/ HandleParseUpdates
    \/ AddSucceeds
    \/ AddCompletes
    \/ CursorSucceeds
    \/ ReadCompletes
    \/ ClearRequested
    \/ ClearSucceeds
    \/ ClearCompletes
    \/ StoreUnmount

SpecStore == StoreInit /\ [][StoreNext]_allVars

\* C25: getRecentUpdates(N) returns min(N, number of stored records)
\* records, which are the records with the greatest timestamps, in descending
\* timestamp order; the store it read was one committed state, also when an
\* append was requested while it read.
C25_RecentUpdates ==
    lastRead.returned =>
        LET results == lastRead.results
            store == records
            returned == {results[i] : i \in DOMAIN results}
            stored == {store[i] : i \in DOMAIN store}
        IN  /\ Len(results) = IF lastRead.limit < Len(store)
                              THEN lastRead.limit
                              ELSE Len(store)
            /\ Cardinality(returned) = Len(results)
            /\ returned \subseteq stored
            /\ \A i, j \in DOMAIN results :
                  i < j => results[i].timestamp >= results[j].timestamp
            /\ \A kept \in returned, left \in stored \ returned :
                  kept.timestamp >= left.timestamp
            /\ records = committed

\* a read of one record returned the stored record with the greater
\* timestamp, which is not the one stored last, while an append waited for it
C25_Witness ==
    /\ lastRead.returned
    /\ lastRead.overlapped
    /\ lastRead.limit = 1
    /\ Len(records) = 2
    /\ records[1].timestamp > records[2].timestamp
    /\ lastRead.results = <<records[1]>>

\* nothing received before the clears that have completed is stored, nor
\* shown by the mounted hook
C26_NothingOlder ==
    /\ \A i \in DOMAIN records : records[i].epoch >= clearsCompleted
    /\ storeMounted =>
          \A i \in DOMAIN updatesState : updatesState[i].epoch >= clearsCompleted

\* when a clear completes the store is empty and the mounted hook's window
\* is empty
C26_EmptyWhenCompleted ==
    clearsCompleted' > clearsCompleted =>
        /\ records' = <<>>
        /\ storeMounted => updatesState' = <<>>

\* C26: once a clear has completed the store and the window are empty, and
\* from then on they hold only updates received after the clear was
\* requested, also when an append or a reload was in flight at the request.
C26_Clear == []C26_NothingOlder /\ [][C26_EmptyWhenCompleted]_allVars

\* a clear requested while an append and a reload were in flight has
\* completed, all transactions are complete, and store and window are empty
C26_Witness ==
    /\ clearsCompleted = 1
    /\ pendingAtClear = {"add", "read"}
    /\ storeMounted
    /\ transactions = <<>>
    /\ nextId > 2
    /\ records = <<>>
    /\ updatesState = <<>>

\* the hook's record of the highest id is the id of the last command it
\* posted (0 before the first), and so is its counter
C27_Highest ==
    /\ latestRequest = lastCommand.requestId
    /\ requestCounter = lastCommand.requestId

\* a command the hook posts carries the id of the command before it plus
\* one, and the counter moves only when a command is posted
C27_NextId ==
    /\ lastCommand' # lastCommand =>
          lastCommand'.requestId = lastCommand.requestId + 1
    /\ requestCounter' # requestCounter => lastCommand' # lastCommand

\* C27: the request ids the hook issues are 1, 2, 3, ..., each build or
\* reset carrying the previous id plus one, also across the creation of a
\* new worker, and latestRequestRef always equals the last id issued.
C27_RequestIds == []C27_Highest /\ [][C27_NextId]_allVars

\* the second worker was sent the third command
C27_Witness ==
    /\ workerSeq = 2
    /\ workerRef = 2
    /\ lastCommand.requestId = 3
    /\ latestRequest = 3
    /\ inbox # <<>>
    /\ inbox[Len(inbox)].requestId = 3

\* the events a worker posted are in the order of its commands: their
\* request ids increase along the outbox, and the commands the live worker
\* has not handled yet are later than all of them
C28_InOrder ==
    /\ \A i, j \in DOMAIN outbox :
          (i < j /\ outbox[i].worker = outbox[j].worker) =>
              outbox[i].message.requestId < outbox[j].message.requestId
    /\ \A i \in DOMAIN outbox, k \in DOMAIN inbox :
          outbox[i].worker = workerRef =>
              outbox[i].message.requestId < inbox[k].requestId

\* the worker handles the first command of its queue and posts exactly one
\* event, with the requestId of that command; unless the handler threw, it is
\* a graph event with the graph built of the command's updates (the empty
\* graph for a reset)
C28_OneAnswer ==
    /\ (workerRef' = workerRef /\ inbox # <<>> /\ inbox' = Tail(inbox)) =>
          Len(outbox') = Len(outbox) + 1
    /\ Len(outbox') > Len(outbox) =>
          /\ inbox # <<>>
          /\ workerRef # null
          /\ inbox' = Tail(inbox)
          /\ \E event \in {outbox'[Len(outbox')]} :
                /\ outbox' = Append(outbox, event)
                /\ event.worker = workerRef
                /\ event.message.requestId = Head(inbox).requestId
                /\ event.message.type = "graph" =>
                      event.message.graph
                          = IF Head(inbox).type = "build"
                            THEN buildGraph(Head(inbox).updates)
                            ELSE EMPTY_GRAPH

\* C28: the graph worker answers every build or reset command with exactly
\* one graph response carrying the requestId of that command, and answers
\* the commands in the order it received them.
C28_Answers == []C28_InOrder /\ [][C28_OneAnswer]_allVars

\* the live worker has answered its first two commands, in order
C28_Witness ==
    /\ Len(outbox) >= 2
    /\ outbox[1].worker = workerRef
    /\ outbox[2].worker = workerRef
    /\ outbox[1].message.type = "graph"
    /\ outbox[2].message.type = "graph"
    /\ outbox[1].message.requestId = 1
    /\ outbox[2].message.requestId = 2

\* while the hook is torn down there is no worker, no command waits for
\* one, and no debounce timer is pending
C29_TornDown ==
    ~mounted =>
        /\ workerRef = null
        /\ inbox = <<>>
        /\ scheduledBuild = null
        /\ buildTimers = {}

\* the displayed graph does not change while the hook is torn down, and the
\* event of a terminated worker never changes it
C29_NoLateChange ==
    /\ (~mounted /\ ~mounted') => graph' = graph
    /\ (\E i \in DOMAIN outbox :
           /\ outbox[i].worker # workerRef
           /\ outbox' = Without(outbox, i)) => graph' = graph

\* C29: after the teardown the worker is terminated, no debounce timer is
\* armed, and a response to a request that was in flight at the teardown
\* never changes the displayed graph.
C29_Teardown == []C29_TornDown /\ [][C29_NoLateChange]_allVars

\* the hook was torn down while the response to its latest request, with
\* another graph than the displayed one, was in flight
C29_Witness ==
    /\ ~mounted
    /\ lastStep = "unmount"
    /\ \E i \in DOMAIN outbox :
          /\ outbox[i].message.type = "graph"
          /\ outbox[i].message.requestId = latestRequest
          /\ outbox[i].message.graph # graph

-----------------------------------------------------------------------------
(***************************************************************************)
(* The server store of api/src/db.ts: table as_edge with primary key       *)
(* (src_as, dst_as), written by upsertEdgesFromASPath and read by          *)
(* getSnapshot.  An AS path is given as the collector builds it, the hops  *)
(* joined by single spaces; two texts with more white space are added.     *)
(***************************************************************************)
ServerASNs == {64496, 64497, 65000}

\* asPath.join(" ") of the collector (line 198)
PathText(hops) ==
    Join([i \in DOMAIN hops |-> NumberToString(hops[i])], <<" ">>)

\* the paths upsertEdgesFromASPath is called with, the hops and their text:
\* the loop-free paths, a path with a prepended hop, two texts with more
\* white space, and `undefined`, the absent path
ServerPaths ==
    {[hops |-> hops, text |-> <<PathText(hops)>>] :
        hops \in {h \in SeqsUpTo(ServerASNs, MaxHops) :
                     \A i, j \in DOMAIN h : h[i] = h[j] => i = j}}
    \cup {[hops |-> <<>>, text |-> <<>>],
          [hops |-> <<65000, 65000, 64496>>,
           text |-> <<PathText(<<65000, 65000, 64496>>)>>],
          [hops |-> <<64496, 65000>>,
           text |-> <<<<" ">> \o PathText(<<64496>>) \o <<" ", " ">>
                        \o PathText(<<65000>>)>>],
          [hops |-> <<65000, 64497>>,
           text |-> <<PathText(<<65000, 64497>>) \o <<" ">>>>]}

\* String.prototype.split(/\s+/): the pieces between the runs of spaces,
\* after `token` was read
RECURSIVE split(_, _)
split(chars, token) ==
    IF chars = <<>>
    THEN <<token>>
    ELSE IF Head(chars) = " "
         THEN <<token>> \o split(SkipSpaces(Tail(chars)), <<>>)
         ELSE split(Tail(chars), Append(token, Head(chars)))

\* lines 92-95: the integers of the pieces
RECURSIVE parsedParts(_)
parsedParts(pieces) ==
    IF pieces = <<>>
    THEN <<>>
    ELSE parseInt(Head(pieces)) \o parsedParts(Tail(pieces))

insertEdge_NoConflictClause(table, edge) ==
    Append(table, [src_as |-> edge.src, dst_as |-> edge.dst,
                   last_seen |-> edge.ts])

\* INSERT INTO as_edge ... ON CONFLICT(src_as, dst_as) DO UPDATE SET
\* last_seen = excluded.last_seen
insertEdge(table, edge) ==
    IF \E r \in DOMAIN table :
          table[r].src_as = edge.src /\ table[r].dst_as = edge.dst
    THEN [r \in DOMAIN table |->
             IF table[r].src_as = edge.src /\ table[r].dst_as = edge.dst
             THEN [table[r] EXCEPT !.last_seen = edge.ts]
             ELSE table[r]]
    ELSE Append(table, [src_as |-> edge.src, dst_as |-> edge.dst,
                        last_seen |-> edge.ts])

\* lines 97-104: the loop from index i (1-based) on
RECURSIVE upsertLoop(_, _, _, _)
upsertLoop(table, parts, i, ts) ==
    IF i > Len(parts) - 1
    THEN table
    ELSE upsertLoop(insertEdge(table, [src |-> parts[i], dst |-> parts[i + 1],
                                       ts |-> ts]),
                    parts, i + 1, ts)

\* the table after upsertEdgesFromASPath(asPath, ts); asPath is <<>> for
\* undefined, else <<the string>>
upsertEdgesFromASPath(table, asPath, ts) ==
    IF asPath = <<>> \/ asPath[1] = <<>>
    THEN table
    ELSE upsertLoop(table, parsedParts(split(asPath[1], <<>>)), 1, ts)

\* the edges of getSnapshot(): SELECT src_as, dst_as FROM as_edge
getSnapshotEdges(table) ==
    [r \in DOMAIN table |->
        [src_as |-> table[r].src_as, dst_as |-> table[r].dst_as]]

ServerInit ==
    /\ SessionIdle
    /\ WindowIdle
    /\ GraphIdle
    /\ AggregatorIdle
    /\ FunctionsIdle
    /\ StoreIdle
    /\ CollectorIdle
    /\ AppIdle
    /\ LayoutIdle
    /\ asEdge = <<>>
    /\ processed = {}
    /\ clock = 0

\* upsertEdgesFromASPath(path.text, clock) is called
UpsertEdges ==
    \E path \in ServerPaths :
        /\ clock < MaxUpserts
        /\ asEdge' = upsertEdgesFromASPath(asEdge, path.text, clock)
        /\ processed' = processed \cup {path.hops}
        /\ clock' = clock + 1
        /\ UNCHANGED <<sessionVars, windowVars, graphVars, aggregatorVars,
                       functionVars, storeVars, collectorVars, appVars, layoutVars>>

SpecServer == ServerInit /\ [][UpsertEdges]_allVars

\* the consecutive pairs of a path
ConsecutivePairs(hops) ==
    {[src_as |-> hops[i], dst_as |-> hops[i + 1]] : i \in 1..(Len(hops) - 1)}

\* the snapshot has at most one edge per (src_as, dst_as), and its edges are
\* exactly the consecutive pairs of the paths processed
C30_DistinctPairs ==
    LET edges == getSnapshotEdges(asEdge)
    IN  /\ \A i, j \in DOMAIN edges : edges[i] = edges[j] => i = j
        /\ {edges[i] : i \in DOMAIN edges}
               = UNION {ConsecutivePairs(hops) : hops \in processed}

\* processing a path that was processed before leaves the set of snapshot
\* edges as it was
C30_Reprocessing ==
    (clock' # clock /\ processed' = processed) =>
        {getSnapshotEdges(asEdge')[i] : i \in DOMAIN asEdge'}
            = {getSnapshotEdges(asEdge)[i] : i \in DOMAIN asEdge}

\* C30: after any sequence of upsertEdgesFromASPath calls the snapshot
\* holds at most one edge per (src_as, dst_as) pair, exactly the distinct
\* consecutive pairs of all processed paths; processing a path again leaves
\* the set of snapshot edges unchanged.
C30_EdgeDeduplication == []C30_DistinctPairs /\ [][C30_Reprocessing]_allVars

\* a path of three hops was processed twice: two edges, both last seen at
\* the second call
C30_Witness ==
    /\ clock = 2
    /\ processed = {<<65000, 64496, 64497>>}
    /\ Len(asEdge) = 2
    /\ asEdge[1].last_seen = 1
    /\ asEdge[2].last_seen = 1

-----------------------------------------------------------------------------
(***************************************************************************)
(* The update monitor of api/src/collector.ts (startUpdateMonitor without  *)
(* DEMO_MODE), lines 247-297.  The output of the collector process is a    *)
(* sequence of pieces: the braces of an update object, one piece for each  *)
(* entry of its `announced` and `withdrawn` arrays, a piece that is no     *)
(* JSON, a space and the line feed.  The stream delivers it in chunks that *)
(* end anywhere.                                                           *)
(***************************************************************************)
Piece(t) == [t |-> t, prefix |-> ""]
AnnouncedPiece(prefix) == [t |-> "announced", prefix |-> prefix]
WithdrawnPiece(prefix) == [t |-> "withdrawn", prefix |-> prefix]
LineFeed == Piece("\n")
Space == Piece(" ")

\* the lines the collector process writes: the update of the test
\* (collector.test.ts lines 98-109), an update of two announcements, an
\* update of one withdrawal followed by a space, and a line that is no JSON
CollectorLines ==
    {<<Piece("{"), AnnouncedPiece("203.0.113.0/24"),
       WithdrawnPiece("198.51.100.0/24"), Piece("}")>>,
     <<Piece("{"), AnnouncedPiece("203.0.113.0/24"),
       AnnouncedPiece("192.0.2.0/24"), Piece("}")>>,
     <<Piece("{"), WithdrawnPiece("192.0.2.0/24"), Piece("}"), Space>>,
     <<Piece("gobgp")>>}

\* chunk.toString().split("\n"), after `token` was read
RECURSIVE splitLines(_, _)
splitLines(chars, token) ==
    IF chars = <<>>
    THEN <<token>>
    ELSE IF Head(chars) = LineFeed
         THEN <<token>> \o splitLines(Tail(chars), <<>>)
         ELSE splitLines(Tail(chars), Append(token, Head(chars)))

\* String.prototype.trim
RECURSIVE trimEnd(_)
trimEnd(chars) ==
    IF chars # <<>> /\ chars[Len(chars)] \in {Space, LineFeed}
    THEN trimEnd(SubSeq(chars, 1, Len(chars) - 1))
    ELSE chars

RECURSIVE trimStart(_)
trimStart(chars) ==
    IF chars # <<>> /\ Head(chars) \in {Space, LineFeed}
    THEN trimStart(Tail(chars))
    ELSE chars

trim(chars) == trimEnd(trimStart(chars))

IsEntry(piece) == piece.t \in {"announced", "withdrawn"}

\* JSON.parse(trimmed): <<the UpdateMessage>>, or <<>> when it throws.  The
\* text of an update is an opening brace, entries, and the closing brace.
JSONparse(chars) ==
    IF /\ Len(chars) >= 2
       /\ Head(chars) = Piece("{")
       /\ chars[Len(chars)] = Piece("}")
       /\ \A i \in 2..(Len(chars) - 1) : IsEntry(chars[i])
    THEN <<[announced |-> SelectSeq(chars, LAMBDA c : c.t = "announced"),
            withdrawn |-> SelectSeq(chars, LAMBDA c : c.t = "withdrawn")]>>
    ELSE <<>>

Effect(op, type, prefix, line) ==
    [op |-> op, type |-> type, prefix |-> prefix, line |-> line]

RECURSIVE announcedLoop(_, _)
\* lines 264-281: for (const announcement of parsed.announced)
announcedLoop(entries, line) ==
    IF entries = <<>>
    THEN <<>>
    ELSE <<Effect("upsertPrefix", "announce", Head(entries).prefix, line),
           Effect("upsertEdgesFromASPath", "announce", Head(entries).prefix,
                  line),
           Effect("addEvent", "announce", Head(entries).prefix, line),
           Effect("onAnnounce", "announce", Head(entries).prefix, line)>>
         \o announcedLoop(Tail(entries), line)

RECURSIVE withdrawnLoop(_, _)
\* lines 284-290: for (const withdrawal of parsed.withdrawn)
withdrawnLoop(entries, line) ==
    IF entries = <<>>
    THEN <<>>
    ELSE <<Effect("addEvent", "withdraw", Head(entries).prefix, line),
           Effect("onWithdraw", "withdraw", Head(entries).prefix, line)>>
         \o withdrawnLoop(Tail(entries), line)

\* lines 254-290: the body of the loop over the lines, for the line with
\* number `line`
lineBody(text, line) ==
    LET trimmed == trim(text)
        parsed == JSONparse(trimmed)
    IN  IF trimmed = <<>> \/ parsed = <<>>
        THEN <<>>
        ELSE announcedLoop(parsed[1].announced, line)
                 \o withdrawnLoop(parsed[1].withdrawn, line)

RECURSIVE linesLoop_StopsAtInvalid(_, _)
linesLoop_StopsAtInvalid(lines, line) ==
    IF lines = <<>>
    THEN <<>>
    ELSE IF trim(Head(lines)) # <<>> /\ JSONparse(trim(Head(lines))) = <<>>
         THEN <<>>
         ELSE lineBody(Head(lines), line)
                  \o linesLoop_StopsAtInvalid(Tail(lines), line + 1)

RECURSIVE linesLoop(_, _)
\* line 253: for (const line of lines); the first has number `line`
linesLoop(lines, line) ==
    IF lines = <<>>
    THEN <<>>
    ELSE lineBody(Head(lines), line) \o linesLoop(Tail(lines), line + 1)

CollectorInit ==
    /\ SessionIdle
    /\ WindowIdle
    /\ GraphIdle
    /\ AggregatorIdle
    /\ FunctionsIdle
    /\ StoreIdle
    /\ ServerIdle
    /\ AppIdle
    /\ LayoutIdle
    /\ stdout = <<>>
    /\ written = <<>>
    /\ linesRead = <<>>
    /\ effects = <<>>
    /\ stopperCalled = FALSE
    /\ killed = FALSE

CollectorFrame ==
    UNCHANGED <<sessionVars, windowVars, graphVars, aggregatorVars,
                functionVars, storeVars, serverVars, appVars, layoutVars>>

\* the collector process writes a line and its line feed
CollectorWrites ==
    \E line \in CollectorLines :
        /\ ~killed
        /\ Len(written) < MaxLines
        /\ written' = Append(written, line)
        /\ stdout' = stdout \o line \o <<LineFeed>>
        /\ UNCHANGED <<linesRead, effects, stopperCalled, killed>>
        /\ CollectorFrame

\* monitor.stdout emits "data" with the first n pieces not yet delivered
\* (lines 251-292)
StdoutData ==
    \E n \in 1..Len(stdout) :
        LET chunk == SubSeq(stdout, 1, n)
            lines == splitLines(chunk, <<>>)
            data == IF linesRead = <<>>
                    THEN 1
                    ELSE linesRead[Len(linesRead)].chunk + 1
        IN  /\ data <= MaxChunks
            /\ stdout' = SubSeq(stdout, n + 1, Len(stdout))
            /\ linesRead' = linesRead \o
                   [i \in DOMAIN lines |-> [chunk |-> data, text |-> lines[i]]]
            /\ effects' = effects \o linesLoop(lines, Len(linesRead) + 1)
            /\ UNCHANGED <<written, stopperCalled, killed>>
            /\ CollectorFrame

\* the MonitorStopper is called (lines 294-296): monitor.kill()
Stopper ==
    /\ ~stopperCalled
    /\ stopperCalled' = TRUE
    /\ killed' = TRUE
    /\ UNCHANGED <<stdout, written, linesRead, effects>>
    /\ CollectorFrame

CollectorNext == CollectorWrites \/ StdoutData \/ Stopper

SpecCollector == CollectorInit /\ [][CollectorNext]_allVars

\* the store writes and handler calls made for line k, and the handler calls
\* among them
EffectsOf(k) == SelectSeq(effects, LAMBDA e : e.line = k)
HandlerCalls(log) ==
    SelectSeq(log, LAMBDA e : e.op \in {"onAnnounce", "onWithdraw"})
CallsFor(entries) ==
    [i \in DOMAIN entries |->
        [op |-> IF entries[i].t = "announced" THEN "onAnnounce"
                ELSE "onWithdraw",
         prefix |-> entries[i].prefix]]
Called(log) ==
    [i \in DOMAIN log |-> [op |-> log[i].op, prefix |-> log[i].prefix]]

\* C31: for every line the data handler read, the announce handler is called
\* once for each announced entry and the withdraw handler once for each
\* withdrawn entry, each after the entry's store writes; a line that is no
\* JSON has no handler call and no store write, and the lines after it are
\* still handled; once the stopper was called the collector process is
\* killed.
C31_UpdateMonitor ==
    /\ \A k \in DOMAIN linesRead :
          LET text == trim(linesRead[k].text)
              log == EffectsOf(k)
          IN  IF JSONparse(text) = <<>>
              THEN log = <<>>
              ELSE /\ Called(HandlerCalls(log))
                        = CallsFor(SelectSeq(text, LAMBDA c : c.t = "announced"))
                          \o CallsFor(SelectSeq(text,
                                                LAMBDA c : c.t = "withdrawn"))
                   /\ \A i \in DOMAIN log :
                         /\ log[i].op = "onAnnounce" =>
                               /\ i > 3
                               /\ log[i - 3].op = "upsertPrefix"
                               /\ log[i - 2].op = "upsertEdgesFromASPath"
                               /\ log[i - 1].op = "addEvent"
                               /\ \A j \in (i - 3)..(i - 1) :
                                     /\ log[j].prefix = log[i].prefix
                                     /\ log[j].type = "announce"
                         /\ log[i].op = "onWithdraw" =>
                               /\ i > 1
                               /\ log[i - 1].op = "addEvent"
                               /\ log[i - 1].type = "withdraw"
                               /\ log[i - 1].prefix = log[i].prefix
    /\ stopperCalled => killed

\* one chunk held a line that is no JSON and after it the update of one
\* announcement and one withdrawal; both handlers were called for it, and
\* the stopper was called
C31_Witness ==
    /\ Len(linesRead) >= 2
    /\ linesRead[1].text = <<Piece("gobgp")>>
    /\ linesRead[2].chunk = linesRead[1].chunk
    /\ JSONparse(linesRead[2].text) # <<>>
    /\ Called(HandlerCalls(EffectsOf(2)))
           = <<[op |-> "onAnnounce", prefix |-> "203.0.113.0/24"],
               [op |-> "onWithdraw", prefix |-> "198.51.100.0/24"]>>
    /\ stopperCalled
    /\ killed

\* the handler calls due for the lines written
RECURSIVE CallsDue(_)
CallsDue(lines) ==
    IF lines = <<>>
    THEN <<>>
    ELSE (IF JSONparse(trim(Head(lines))) = <<>>
          THEN <<>>
          ELSE CallsFor(SelectSeq(Head(lines), LAMBDA c : c.t = "announced"))
                   \o CallsFor(SelectSeq(Head(lines),
                                         LAMBDA c : c.t = "withdrawn")))
         \o CallsDue(Tail(lines))

\* C40: once the stream has delivered everything the collector wrote, each
\* update line written was delivered to the handlers exactly once, whatever
\* the chunks were.
C40_Original ==
    stdout = <<>> => Called(HandlerCalls(effects)) = CallsDue(written)

\* the failing input of C40: the update of the test delivered in two chunks,
\* the first ending after the announced entry; no handler was called
C40_LineLost ==
    /\ written = <<<<Piece("{"), AnnouncedPiece("203.0.113.0/24"),
                     WithdrawnPiece("198.51.100.0/24"), Piece("}")>>>>
    /\ stdout = <<>>
    /\ Len(linesRead) = 3
    /\ linesRead[1].text = <<Piece("{"), AnnouncedPiece("203.0.113.0/24")>>
    /\ linesRead[2].text = <<WithdrawnPiece("198.51.100.0/24"), Piece("}")>>
    /\ effects = <<>>

\* what holds of C40: when every chunk ended at a line feed, each update
\* line written was delivered to the handlers exactly once
C40_WholeLineChunks ==
    (/\ stdout = <<>>
     /\ \A k \in DOMAIN linesRead :
           (k = Len(linesRead) \/ linesRead[k + 1].chunk # linesRead[k].chunk)
               => linesRead[k].text = <<>>)
        => Called(HandlerCalls(effects)) = CallsDue(written)

-----------------------------------------------------------------------------
(***************************************************************************)
(* The server app of api/src/app.ts, setupApp (part_000 lines 41-102),     *)
(* with the heartbeat off (heartbeatIntervalMs 0, the default).  A         *)
(* connection is known by its number in `connections`; its readyState is   *)
(* <<>> when the socket object has none, else <<the number>> (1 is OPEN).  *)
(***************************************************************************)
Connection(interface, readyState) ==
    [interface |-> interface, readyState |-> readyState, closeEmitted |-> FALSE]

\* what the route handler is called with: a socket of the ws library, a
\* socket object without readyState, an object without on and send
Candidates ==
    {Connection(TRUE, <<1>>), Connection(TRUE, <<>>), Connection(FALSE, <<>>)}

\* JSON.stringify(message)
JSONstringify(message) == [json |-> message]

\* lines 46-53: the route handler for connection i; the set after it
wsRoute(set, i, candidate) ==
    IF ~candidate.interface
    THEN set
    ELSE IF \E k \in DOMAIN set : set[k] = i THEN set ELSE Append(set, i)

\* lines 54-56: the close listener of connection i; the set after it
closeListener(set, i) == SelectSeq(set, LAMBDA c : c # i)

RECURSIVE sendLoop_StopsAtFailure(_, _, _, _)
sendLoop_StopsAtFailure(set, sockets_, throwing, data) ==
    IF set = <<>>
    THEN <<>>
    ELSE LET client == Head(set)
         IN  IF sockets_[client].readyState # <<>>
                /\ sockets_[client].readyState # <<1>>
             THEN sendLoop_StopsAtFailure(Tail(set), sockets_, throwing, data)
             ELSE IF client \in throwing
                  THEN <<>>
                  ELSE <<[client |-> client, payload |-> data]>>
                       \o sendLoop_StopsAtFailure(Tail(set), sockets_,
                                                  throwing, data)

RECURSIVE sendLoop(_, _, _, _)
\* lines 61-70: for (const client of clients); the payloads handed to send
\* without a throw, where send throws for the clients of `throwing`
sendLoop(set, sockets_, throwing, data) ==
    IF set = <<>>
    THEN <<>>
    ELSE LET client == Head(set)
             rest == sendLoop(Tail(set), sockets_, throwing, data)
         IN  IF sockets_[client].readyState # <<>>
                /\ sockets_[client].readyState # <<1>>
             THEN rest
             ELSE IF client \in throwing
                  THEN rest
                  ELSE <<[client |-> client, payload |-> data]>> \o rest

\* lines 59-71
broadcast(set, sockets_, throwing, message) ==
    sendLoop(set, sockets_, throwing, JSONstringify(message))

\* lines 73-81: onAnnounce and onWithdraw, for the payload with time ts
onAnnounce(set, sockets_, throwing, ts) ==
    broadcast(set, sockets_, throwing, [type |-> "announce", ts |-> ts])

onWithdraw(set, sockets_, throwing, ts) ==
    broadcast(set, sockets_, throwing, [type |-> "withdraw", ts |-> ts])

\* the clients send is called for
Attempted ==
    {clients[k] : k \in {j \in DOMAIN clients :
                            connections[clients[j]].readyState \in {<<>>, <<1>>}}}

AppInit ==
    /\ SessionIdle
    /\ WindowIdle
    /\ GraphIdle
    /\ AggregatorIdle
    /\ FunctionsIdle
    /\ StoreIdle
    /\ ServerIdle
    /\ CollectorIdle
    /\ LayoutIdle
    /\ clients = <<>>
    /\ connections = <<>>
    /\ delivered = <<>>
    /\ reports = <<>>
    /\ monitorStopped = FALSE
    /\ appClosed = FALSE

AppFrame ==
    UNCHANGED <<sessionVars, windowVars, graphVars, aggregatorVars,
                functionVars, storeVars, serverVars, collectorVars,
                layoutVars>>

\* a websocket connection is made to /ws
WsConnect ==
    \E candidate \in Candidates :
        /\ Len(connections) < MaxConnections
        /\ connections' = Append(connections, candidate)
        /\ clients' = wsRoute(clients, Len(connections) + 1, candidate)
        /\ UNCHANGED <<delivered, reports, monitorStopped, appClosed>>
        /\ AppFrame

\* a socket of the ws library goes from OPEN to CLOSING, or from CLOSING to
\* CLOSED
ReadyStateAdvances ==
    \E i \in DOMAIN connections :
        /\ connections[i].readyState \in {<<1>>, <<2>>}
        /\ connections' =
               [connections EXCEPT ![i].readyState = <<@[1] + 1>>]
        /\ UNCHANGED <<clients, delivered, reports, monitorStopped, appClosed>>
        /\ AppFrame

\* the socket of connection i emits "close"
SocketCloseEvent ==
    \E i \in DOMAIN connections :
        /\ connections[i].interface
        /\ ~connections[i].closeEmitted
        /\ connections[i].readyState \in {<<>>, <<3>>}
        /\ connections' = [connections EXCEPT ![i].closeEmitted = TRUE]
        /\ clients' = closeListener(clients, i)
        /\ UNCHANGED <<delivered, reports, monitorStopped, appClosed>>
        /\ AppFrame

\* the monitor reports an event: it calls onAnnounce or onWithdraw
MonitorReports ==
    \E type \in {"announce", "withdraw"}, throwing \in SUBSET Attempted :
        LET ts == Len(reports) + 1
        IN  /\ Len(reports) < MaxReports
            /\ delivered' = delivered \o
                   (IF type = "announce"
                    THEN onAnnounce(clients, connections, throwing, ts)
                    ELSE onWithdraw(clients, connections, throwing, ts))
            /\ reports' = Append(reports,
                   [type |-> type,
                    connected |-> {i \in DOMAIN connections :
                                      /\ connections[i].interface
                                      /\ ~connections[i].closeEmitted},
                    open |-> {i \in DOMAIN connections :
                                 connections[i].readyState \in {<<>>, <<1>>}},
                    threw |-> throwing])
            /\ UNCHANGED <<clients, connections, monitorStopped, appClosed>>
            /\ AppFrame

\* app.close(): the onClose hook of lines 84-90
AppClose ==
    /\ ~appClosed
    /\ appClosed' = TRUE
    /\ monitorStopped' = TRUE
    /\ UNCHANGED <<clients, connections, delivered, reports>>
    /\ AppFrame

AppNext ==
    \/ WsConnect
    \/ ReadyStateAdvances
    \/ SocketCloseEvent
    \/ MonitorReports
    \/ AppClose

SpecApp == AppInit /\ [][AppNext]_allVars

\* the messages of event e sent to connection i
SentTo(i, e) ==
    SelectSeq(delivered, LAMBDA d : d.client = i /\ d.payload.json.ts = e)

\* C32: every event the monitor reported was sent exactly once, as a message
\* of its type, to every client then connected and open whose send did not
\* throw, also when the send of another client threw, and to no client whose
\* close event was emitted before; once the app was closed the monitor was
\* stopped.
C32_Broadcast ==
    /\ \A e \in DOMAIN reports : \A i \in DOMAIN connections :
          IF i \in (reports[e].connected \cap reports[e].open) \ reports[e].threw
          THEN /\ Len(SentTo(i, e)) = 1
               /\ SentTo(i, e)[1].payload.json.type = reports[e].type
          ELSE SentTo(i, e) = <<>>
    /\ appClosed => monitorStopped

\* two clients were connected and open when the monitor reported an
\* announcement; the send of the first client threw and the second client
\* got the message; the app was closed
C32_Witness ==
    /\ Len(reports) = 1
    /\ reports[1].type = "announce"
    /\ reports[1].connected = {1, 2}
    /\ reports[1].open = {1, 2}
    /\ reports[1].threw = {1}
    /\ Len(delivered) = 1
    /\ delivered[1].client = 2
    /\ delivered[1].payload = JSONstringify([type |-> "announce", ts |-> 1])
    /\ appClosed

-----------------------------------------------------------------------------
(***************************************************************************)
(* The layout stages.  A position is a record: Circle(index, total) is     *)
(* the point of the circle of radius 300 at angle 2*pi*index/total,        *)
(* Random(k) the k-th value the pseudo-random generator can give, Origin   *)
(* the point (0, 0).  The laid-out nodes are a sequence of [id, position]  *)
(* in insertion order.                                                     *)
(***************************************************************************)
Circle(index, total) == [kind |-> "circle", a |-> index, b |-> total]
Random(k) == [kind |-> "random", a |-> k, b |-> 0]
Origin == [kind |-> "origin", a |-> 0, b |-> 0]
RandomPositions == {Random(1), Random(2)}

HasNode(nodes, id) == \E i \in DOMAIN nodes : nodes[i].id = id

\* SigmaGraph.tsx lines 106-165, the nodes/links effect: the graph after
\* it.  graph.clear() forgets every node; each node of the payload is added
\* at (0, 0); assignRandom gives every node of the graph a random position
\* and forceAtlas2 moves them from there, to layout[i] for the i-th node.
sigmaEffect(nodes, layout) ==
    IF nodes = <<>>
    THEN <<>>
    ELSE [i \in DOMAIN nodes |-> [id |-> nodes[i], position |-> layout[i]]]

\* lines 163-164: renderer?.getCamera().animatedReset(), reached for a
\* non-empty graph only (lines 111-114)
sigmaCamera(nodes, renderer, view) ==
    IF nodes # <<>> /\ renderer THEN "reset" ELSE view

\* the payloads of graph nodes: the sequences of distinct node ids
SigmaPayloads ==
    {nodes \in SeqsUpTo({"peer:rrc00", "prefix:203.0.113.0/24"}, 2) :
        \A i, j \in DOMAIN nodes : nodes[i] = nodes[j] => i = j}

RECURSIVE setSnapshotFrom(_, _, _, _)
\* canvas.ts, setSnapshot (canvas.test.ts lines 176-193): nodes.forEach from
\* the entry with the given index (0-based) on
setSnapshotFrom(map, nodes, index, total) ==
    IF index >= Len(nodes)
    THEN map
    ELSE setSnapshotFrom(
             IF HasNode(map, nodes[index + 1])
             THEN map
             ELSE Append(map, [id |-> nodes[index + 1],
                               position |-> Circle(index, IF total > 1
                                                          THEN total ELSE 1)]),
             nodes, index + 1, total)

setSnapshot(map, nodes) == setSnapshotFrom(map, nodes, 0, Len(nodes))

RECURSIVE announceParts(_, _, _)
\* applyAnnounce (lines 201-211): parts.forEach; draws[i] is the random
\* position drawn for the i-th part left
announceParts(map, parts, draws) ==
    IF parts = <<>>
    THEN map
    ELSE announceParts(
             IF HasNode(map, Head(parts))
             THEN map
             ELSE Append(map, [id |-> Head(parts), position |-> Head(draws)]),
             Tail(parts), Tail(draws))

\* applyAnnounce (lines 195-224); origin_as is null or the number, as_path
\* is <<>> for undefined or <<the string>>
applyAnnounce(map, origin_as, as_path, draws) ==
    IF as_path = <<>> \/ as_path[1] = <<>>
    THEN map
    ELSE LET parts == parsedParts(split(as_path[1], <<>>))
             added == announceParts(map, parts, draws)
         IN  IF origin_as # null /\ ~HasNode(added, origin_as)
             THEN Append(added, [id |-> origin_as, position |-> Origin])
             ELSE added

\* App.tsx lines 889-897, the effect of [graphData.nodes.length,
\* graphSize.height, graphSize.width]: whether it calls zoomToFit.
\* graphRef.current is set while ForceGraph2D is rendered, that is while the
\* container has a size (line 963).
fitEffect(hasFit, length, sized) == sized /\ length # 0 /\ ~hasFit

LayoutInit ==
    /\ SessionIdle
    /\ WindowIdle
    /\ GraphIdle
    /\ AggregatorIdle
    /\ FunctionsIdle
    /\ StoreIdle
    /\ ServerIdle
    /\ CollectorIdle
    /\ AppIdle
    /\ stage \in {"SigmaGraph", "CanvasGraph", "ForceGraph2D"}
    /\ sigmaNodes = <<>>
    /\ rendererRef = FALSE
    /\ camera = "reset"
    /\ layoutsSinceReset = 0
    /\ canvasNodes = <<>>
    /\ canvasView = "initial"
    /\ snapshots = 0
    /\ hasFitGraphRef = FALSE
    /\ renderedNodes = 0
    /\ graphSized = FALSE
    /\ fitsSinceReset = 0

LayoutFrame ==
    UNCHANGED <<sessionVars, windowVars, graphVars, aggregatorVars,
                functionVars, storeVars, serverVars, collectorVars, appVars,
                stage>>

SigmaFrame == UNCHANGED <<sigmaNodes, rendererRef, camera, layoutsSinceReset>>
CanvasFrame == UNCHANGED <<canvasNodes, canvasView, snapshots>>
ForceGraphFrame ==
    UNCHANGED <<hasFitGraphRef, renderedNodes, graphSized, fitsSinceReset>>

\* SigmaGraph.tsx lines 50-67: initializeRenderer succeeds, at the mount or
\* when the container got a size
InitializeRenderer ==
    /\ stage = "SigmaGraph"
    /\ ~rendererRef
    /\ rendererRef' = TRUE
    /\ UNCHANGED <<sigmaNodes, camera, layoutsSinceReset>>
    /\ CanvasFrame
    /\ ForceGraphFrame
    /\ LayoutFrame

\* the user moves or zooms the camera of the renderer
UserMovesCamera ==
    /\ stage = "SigmaGraph"
    /\ rendererRef
    /\ camera' = "user"
    /\ UNCHANGED <<sigmaNodes, rendererRef, layoutsSinceReset>>
    /\ CanvasFrame
    /\ ForceGraphFrame
    /\ LayoutFrame

\* SigmaGraph is rendered with new nodes and links: the effect of lines
\* 106-165 runs
SigmaUpdate ==
    \E nodes \in SigmaPayloads :
        \E layout \in [DOMAIN nodes -> RandomPositions] :
            /\ stage = "SigmaGraph"
            /\ nodes # <<>> => layoutsSinceReset < MaxLayouts
            /\ sigmaNodes' = sigmaEffect(nodes, layout)
            /\ camera' = sigmaCamera(nodes, rendererRef, camera)
            /\ layoutsSinceReset' =
                   IF nodes = <<>> THEN 0 ELSE layoutsSinceReset + 1
            /\ UNCHANGED rendererRef
            /\ CanvasFrame
            /\ ForceGraphFrame
            /\ LayoutFrame

\* main.ts line 18: graph.setSnapshot(snapshot.nodes, snapshot.edges)
SetSnapshot ==
    \E nodes \in SeqsUpTo({64496, 65000}, 2) :
        /\ stage = "CanvasGraph"
        /\ snapshots < MaxSnapshots
        /\ snapshots' = snapshots + 1
        /\ canvasNodes' = setSnapshot(canvasNodes, nodes)
        /\ UNCHANGED canvasView
        /\ SigmaFrame
        /\ ForceGraphFrame
        /\ LayoutFrame

\* main.ts lines 20-23: an announce message arrives
ApplyAnnounce ==
    \E path \in {p \in ServerPaths : Len(p.hops) <= 2},
       origin_as \in {null, 64496, 64497},
       draws \in [1..2 -> RandomPositions] :
        /\ stage = "CanvasGraph"
        /\ canvasNodes' = applyAnnounce(canvasNodes, origin_as, path.text, draws)
        /\ UNCHANGED <<canvasView, snapshots>>
        /\ SigmaFrame
        /\ ForceGraphFrame
        /\ LayoutFrame

\* canvas.ts, the wheel and mousemove listeners (canvas.test.ts lines
\* 139-166): the user zooms or drags the view
UserMovesView ==
    /\ stage = "CanvasGraph"
    /\ canvasView' = "user"
    /\ UNCHANGED <<canvasNodes, snapshots>>
    /\ SigmaFrame
    /\ ForceGraphFrame
    /\ LayoutFrame

\* the force-graph App is rendered with a graph of `length` nodes, the
\* container with or without a size, and the filter changed or not: the
\* effect of lines 889-897 runs when one of its dependencies changed
\* (`resized`: the size changed between two sizes), then the effect of
\* lines 906-908 when the filter changed
ForceGraphRender ==
    \E length \in 0..MaxRendered, sized \in BOOLEAN, resized \in BOOLEAN,
       filterChanged \in BOOLEAN :
        LET runs == length # renderedNodes \/ sized # graphSized
                        \/ (sized /\ resized)
            fits == runs /\ fitEffect(hasFitGraphRef, length, sized)
        IN  /\ stage = "ForceGraph2D"
            /\ renderedNodes' = length
            /\ graphSized' = sized
            /\ hasFitGraphRef' =
                   IF filterChanged THEN FALSE ELSE (hasFitGraphRef \/ fits)
            /\ fitsSinceReset' =
                   IF filterChanged THEN 0
                   ELSE IF fits THEN fitsSinceReset + 1 ELSE fitsSinceReset
            /\ SigmaFrame
            /\ CanvasFrame
            /\ LayoutFrame

LayoutNext ==
    \/ InitializeRenderer
    \/ UserMovesCamera
    \/ SigmaUpdate
    \/ SetSnapshot
    \/ ApplyAnnounce
    \/ UserMovesView
    \/ ForceGraphRender

SpecLayout == LayoutInit /\ [][LayoutNext]_allVars

\* every node of `before` that is a node of `after` has the same position
PositionsKept(before, after) ==
    \A i \in DOMAIN before : \A j \in DOMAIN after :
        before[i].id = after[j].id => before[i].position = after[j].position

\* C33: when a layout stage receives a new graph, every node whose id it
\* knew already keeps its position.
C33_Original ==
    [][/\ PositionsKept(sigmaNodes, sigmaNodes')
       /\ PositionsKept(canvasNodes, canvasNodes')]_allVars

\* what holds of C33: CanvasGraph keeps the position of every node it knows,
\* for a snapshot and for an announcement
C33_CanvasPositionsKept == [][PositionsKept(canvasNodes, canvasNodes')]_allVars

\* C34: a graph update re-centres the camera only when it is the first
\* non-empty layout after a reset; a later update leaves the camera as the
\* user set it.
C34_Original ==
    [][(camera = "user" /\ camera' = "reset") => layoutsSinceReset' = 1]_allVars

\* the failing input of C34: the second non-empty layout after the empty
\* graph has reset the camera
C34_SecondLayoutResets ==
    /\ layoutsSinceReset = 2
    /\ rendererRef
    /\ camera = "reset"

\* what holds of C34: the force-graph App calls zoomToFit at most once after
\* hasFitGraphRef was cleared, and CanvasGraph never changes the view by
\* itself
C34_FitOnce ==
    /\ fitsSinceReset <= 1
    /\ fitsSinceReset = 1 => hasFitGraphRef

C34_ViewKept == [][canvasView = "user" => canvasView' = "user"]_allVars

-----------------------------------------------------------------------------
\* the sockets the session holds: not closed, their handlers still set
HeldSockets ==
    {ws \in DOMAIN sockets : sockets[ws].handlers /\ sockets[ws].state # "closed"}

C35_State ==
    /\ Cardinality(HeldSockets) <= 1
    /\ HeldSockets \subseteq {socket}
    /\ (timers # {} \/ reconnectTimer # null) =>
           /\ shouldRun
           /\ socket = null
           /\ HeldSockets = {}

C35_StartWhileRunning ==
    (lastEvent' = "start" /\ shouldRun) =>
        /\ UNCHANGED <<socket, shouldRun, reconnectTimer, sockets, timers>>
        /\ posted' = <<>>

\* C35: after any sequence of commands and socket events the session holds
\* at most one live socket; whenever a reconnect timer is pending the
\* session is running and holds no socket; a start command received while
\* the session is running changes nothing.
C35_SessionState == []C35_State /\ [][C35_StartWhileRunning]_allVars

\* a start command arrived while the session was running with a reconnect
\* timer pending and no socket
C35_Witness ==
    /\ lastEvent = "start"
    /\ shouldRun
    /\ reconnectTimer # null
    /\ timers = {reconnectTimer}
    /\ socket = null
    /\ posted = <<>>

\* the step is an event of a socket that stop or reconnect has torn down:
\* its close event, or an open, message or error event delivered late
SupersededEvent ==
    \/ \E ws \in DOMAIN sockets :
          /\ sockets[ws].state = "closing"
          /\ sockets'[ws].state = "closed"
    \/ /\ \E ws \in DOMAIN sockets : sockets[ws].state = "closing"
       /\ lastEvent' \in {"late open", "late message", "late error",
                          "open unheard", "message unheard", "error unheard"}

\* C36: an event of a socket that stop or reconnect has torn down posts no
\* event, schedules no reconnect, and leaves the socket of the newer
\* connection in place.
C36_SupersededIgnored ==
    [][SupersededEvent =>
          /\ posted' = <<>>
          /\ UNCHANGED <<socket, shouldRun, reconnectTimer, timers, timerSeq>>]_allVars

\* reconnect tore down the first socket and made a second one; the close
\* event of the first was delivered after, and the second is still held
C36_Witness ==
    /\ lastEvent = "close unheard"
    /\ Len(sockets) >= 2
    /\ sockets[1].state = "closed"
    /\ ~sockets[1].handlers
    /\ socket = 2
    /\ sockets[2].state \in {"connecting", "open"}
    /\ shouldRun
    /\ timers = {}

-----------------------------------------------------------------------------
(***************************************************************************)
(* The loading flag and the convergence of the displayed graph.            *)
(***************************************************************************)
\* The graph the hook should display for a window: the empty graph for an
\* empty window (sendGraphCommand sets it itself), what build returns
\* otherwise.
Aggregation(window) ==
    IF Len(window) = 0 THEN EMPTY_GRAPH ELSE buildGraph(window)

\* The build request issued last is still with the live worker, or its
\* event has not been dispatched to the hook yet.
LatestBuildUnanswered ==
    /\ workerRef # null
    /\ lastCommand.type = "build"
    /\ lastCommand.requestId = latestRequest
    /\ \/ \E k \in DOMAIN inbox : inbox[k].requestId = latestRequest
       \/ \E i \in DOMAIN outbox :
             /\ outbox[i].worker = workerRef
             /\ outbox[i].message.requestId = latestRequest

\* A rebuild is pending: a debounce timer is armed or the latest build
\* request is unanswered.
RebuildPending ==
    scheduledBuild # null \/ LatestBuildUnanswered

\* C38: isComputing is true whenever a rebuild is pending, and false only
\* when the displayed graph is the aggregation of the window of the last
\* change (or the worker has failed).
C38_Original ==
    /\ RebuildPending => isComputing
    /\ (~isComputing /\ error = "none" /\ workerRef # null) =>
           graph = Aggregation(latestUpdates)

\* The answer to the build of the mount is dispatched after the window
\* changed: no worker failed, the debounce timer is armed, the displayed
\* graph is the one of the window before the change, and the flag is off.
C38_FlagOffWhilePending ==
    /\ mounted
    /\ workerRef # null
    /\ error = "none"
    /\ lastStep = "message"
    /\ lastMessage.requestId = latestRequest
    /\ scheduledBuild # null
    /\ Len(latestUpdates) > 0
    /\ graph # Aggregation(latestUpdates)
    /\ ~isComputing

\* What the code keeps of the flag: it is on while the latest build request
\* is unanswered and no event of the live worker has been handled since it
\* was issued.
C38_OnUntilAnEvent ==
    (LatestBuildUnanswered /\ lastStep \in {"mount", "updates", "timer"}) =>
        isComputing

\* The event loop runs a timeout callback whose delay has elapsed, the worker
\* thread handles the commands of its queue, and the events it posts are
\* dispatched to the listeners of the hook.
\* The worker has a command to handle: WorkerAnswers is enabled.
WorkerHasCommand ==
    workerRef # null /\ inbox # <<>>

\* WF_allVars(WorkerAnswers), with the enabling condition of the action
\* written out.
WorkerRuns ==
    []<>(~WorkerHasCommand) \/ []<><<WorkerAnswers>>_allVars

SpecGraphFair ==
    /\ SpecGraph
    /\ WF_allVars(BuildTimerFires)
    /\ WorkerRuns
    /\ WF_allVars(Dispatch)

\* The hook is mounted with a worker that has not failed: no error is shown
\* and no error event of the worker waits to be dispatched.
WorkerHealthy ==
    /\ mounted
    /\ workerRef # null
    /\ error = "none"
    /\ \A i \in DOMAIN outbox :
          outbox[i].worker = workerRef => outbox[i].message.type # "error"

\* The exploration bound on the request ids does not hold back a timer.
TimerCanFire ==
    buildTimers # {} => requestCounter < MaxRequests

\* C37: convergence.  If from some point on the worker exists and has not
\* failed and the window stays w, then from some point on the displayed
\* graph is the aggregation of w, whatever window changes, timer firings
\* and worker events came before.
C37_Convergence ==
    \A w \in Batches :
        <>[](WorkerHealthy /\ TimerCanFire /\ latestUpdates = w)
            => <>[](graph = Aggregation(w) /\ ~RebuildPending)

\* The window changed while the build of the mount was with the worker; the
\* timer fired, the worker answered both builds, and the answer to the
\* second is displayed: the graph of the final window, nothing pending.
C37_Witness ==
    /\ WorkerHealthy
    /\ lastStep = "message"
    /\ latestRequest >= 2
    /\ lastMessage.requestId = latestRequest
    /\ lastCommand.type = "build"
    /\ lastCommand.updates = latestUpdates
    /\ Len(latestUpdates) > 0
    /\ graph = Aggregation(latestUpdates)
    /\ ~RebuildPending
    /\ inbox = <<>>

-----------------------------------------------------------------------------
(***************************************************************************)
(* buildGraph and the order of the batch.                                  *)
(***************************************************************************)
\* The batches with the updates of `batch` in another order.
Permuted(batch) ==
    {[i \in DOMAIN batch |-> batch[p[i]]] :
        p \in {f \in [DOMAIN batch -> DOMAIN batch] :
                  \A i, j \in DOMAIN batch : f[i] = f[j] => i = j}}

\* The nodes of a graph with their types and counts, and its links with
\* their counts, without the listing order.
NodeSet(g) ==
    {[id |-> g.nodes[i].id, type |-> g.nodes[i].type, count |-> g.nodes[i].count] :
        i \in DOMAIN g.nodes}

LinkSet(g) == {g.links[i] : i \in DOMAIN g.links}

\* C39: for every permutation of the batch, build returns the same set of
\* nodes with the same types and counts and the same set of links with the
\* same counts.
C39_Original ==
    payload # <<>> =>
        \A other \in Permuted(buildArgument) :
            /\ NodeSet(buildGraph(other)) = NodeSet(payload[1])
            /\ LinkSet(buildGraph(other)) = LinkSet(payload[1])

\* A batch of two announcements whose peer-prefix links share one Map key:
\* the link returned has the source and target of the update that came
\* first, and the batch in the other order returns another link.
C39_LinkDependsOnOrder ==
    /\ payload # <<>>
    /\ Len(buildArgument) = 2
    /\ buildArgument[1].kind = "announce"
    /\ buildArgument[2].kind = "announce"
    /\ buildArgument[1].originAs = <<>>
    /\ buildArgument[2].originAs = <<>>
    /\ Len(payload[1].links) = 1
    /\ payload[1].links[1].count = 2
    /\ payload[1].links[1].source = makeNodeKey("peer", buildArgument[1].peer)
    /\ buildArgument[2].peer # buildArgument[1].peer
    /\ LinkSet(buildGraph(<<buildArgument[2], buildArgument[1]>>)) # LinkSet(payload[1])

\* The nodes do not depend on the order: node keys are unambiguous.
C39_NodesOrderIndependent ==
    payload # <<>> =>
        \A other \in Permuted(buildArgument) :
            NodeSet(buildGraph(other)) = NodeSet(payload[1])

\* A peer or prefix that contains the text "->".
HasArrow(text) == \E i \in DOMAIN text : text[i] = "->"

\* Nor do the links, on batches whose peers and prefixes do not contain the
\* text that trackLink puts between the source and the target.
C39_LinksOrderIndependent ==
    (/\ payload # <<>>
     /\ \A i \in DOMAIN buildArgument :
            ~HasArrow(buildArgument[i].peer) /\ ~HasArrow(buildArgument[i].prefix)) =>
        \A other \in Permuted(buildArgument) :
            LinkSet(buildGraph(other)) = LinkSet(payload[1])

=============================================================================
